---- MODULE Spec2Model ----
(***************************************************************************)
(* A model of skillcorner_analysis_toolkit: the normalisation functions    *)
(* (skillcorner_normalisations.py) and the row classification, marker      *)
(* sizing and label selection of the three chart functions                 *)
(* (skillcorner_plots.py).                                                 *)
(*                                                                         *)
(* A DataFrame is a record [columns, data]: the ordered column names and,  *)
(* per column, the sequence of its values (one per row).  Column names are *)
(* sequences of characters, so that the substring tests and replacements   *)
(* of the code are computed, not assumed.  A number is an IEEE 754         *)
(* binary64 value, as the float64 columns of the code hold: a record       *)
(* [k, s, m, e] with k one of "fin", "inf", "nan", the sign s, and for a   *)
(* finite number the significand m (four 14-bit limbs) and the exponent e  *)
(* of the value s * m * 2^e.  Every operation rounds to nearest, ties to   *)
(* even, keeps the sign of zero and propagates NaN as the hardware does.   *)
(***************************************************************************)
EXTENDS Integers, Sequences, FiniteSets, TLC

VARIABLES df, ret, palette

vars == <<df, ret, palette>>

\* ------------------------------------------------------------------ bounds
\* Largest number of rows of a dataset.
MaxRows == 3

\* ------------------------------------------------------------- column names
tok_count == <<"c", "o", "u", "n", "t", "_">>
tok_per_match == <<"p", "e", "r", "_", "m", "a", "t", "c", "h">>
tok_per_30_tip == <<"p", "e", "r", "_", "3", "0", "_", "t", "i", "p">>
minutes_played_per_match == <<"m", "i", "n", "u", "t", "e", "s", "_", "p", "l", "a", "y", "e", "d", "_", "p", "e", "r", "_", "m", "a", "t", "c", "h">>
adjusted_min_tip_per_match == <<"a", "d", "j", "u", "s", "t", "e", "d", "_", "m", "i", "n", "_", "t", "i", "p", "_", "p", "e", "r", "_", "m", "a", "t", "c", "h">>
count_match == <<"c", "o", "u", "n", "t", "_", "m", "a", "t", "c", "h">>
sum_minutes_played == <<"s", "u", "m", "_", "m", "i", "n", "u", "t", "e", "s", "_", "p", "l", "a", "y", "e", "d">>
player_name == <<"p", "l", "a", "y", "e", "r", "_", "n", "a", "m", "e">>
size == <<"s", "i", "z", "e">>
\* Names of the columns of the datasets the model draws.
col_x == <<"x">>
col_y == <<"y">>
col_z == <<"z">>
col_group == <<"g">>
plotted_metric == <<"p", "l", "o", "t", "t", "e", "d", "_", "m", "e", "t", "r", "i", "c">>

\* The names of the working columns of the chart functions.
colour == <<"c", "o", "l", "o", "u", "r">>

fontweight == <<"f", "o", "n", "t", "w", "e", "i", "g", "h", "t">>

swarm_group == <<"s", "w", "a", "r", "m", "_", "g", "r", "o", "u", "p">>

\* The names DataFrame.reset_index gives the column it inserts.
index == <<"i", "n", "d", "e", "x">>

level_0 == <<"l", "e", "v", "e", "l", "_", "0">>
count_a_per_match == <<"c", "o", "u", "n", "t", "_", "a", "_", "p", "e", "r", "_", "m", "a", "t", "c", "h">>
count_b_per_match == <<"c", "o", "u", "n", "t", "_", "b", "_", "p", "e", "r", "_", "m", "a", "t", "c", "h">>
account_per_match == <<"a", "c", "c", "o", "u", "n", "t", "_", "p", "e", "r", "_", "m", "a", "t", "c", "h">>
count_a_per_30_tip == <<"c", "o", "u", "n", "t", "_", "a", "_", "p", "e", "r", "_", "3", "0", "_", "t", "i", "p">>

\* ---------------------------------------------------------------- numbers
\* A number is a binary64 float, as numpy computes with: a record
\* [k, s, m, e] of its kind ("fin", "inf" or "nan"), its sign s (1 or -1),
\* and, for a finite number, its value s * m * 2^e, where the significand m is
\* a natural number below 2^53 written as four limbs of 14 bits, least
\* significant first.  A normal number has 2^52 <= m, a subnormal number and
\* zero have e = -1074, so that each float has one record.  Every operation
\* rounds its exact result to the nearest float, ties to even.
Limb == 16384

LimbBits == 14

Abs(i) == IF i < 0 THEN -i ELSE i

Max(a, b) == IF a < b THEN b ELSE a

Min(a, b) == IF a < b THEN a ELSE b

\* A natural number as limbs: the carries of a sequence of integers, each
\* weighing Limb times the one before it, are propagated upwards (carry is
\* the amount carried into the first).
RECURSIVE Carry(_, _)
Carry(s, carry) ==
    IF s = <<>> THEN (IF carry = 0 THEN <<>> ELSE <<carry % Limb>> \o Carry(s, carry \div Limb))
    ELSE <<(s[1] + carry) % Limb>> \o Carry(Tail(s), (s[1] + carry) \div Limb)

\* The limb i of a, zero beyond its length.
LimbAt(a, i) == IF i >= 1 /\ i <= Len(a) THEN a[i] ELSE 0

\* The number of limbs of a up to its last nonzero limb.
RECURSIVE Limbs(_, _)
Limbs(a, n) == IF n = 0 \/ a[n] # 0 THEN n ELSE Limbs(a, n - 1)

BigIsZero(a) == Limbs(a, Len(a)) = 0

\* a < b on natural numbers, decided from limb n downwards.
RECURSIVE BigLessFrom(_, _, _)
BigLessFrom(a, b, n) ==
    IF n = 0 THEN FALSE
    ELSE IF LimbAt(a, n) # LimbAt(b, n) THEN LimbAt(a, n) < LimbAt(b, n)
    ELSE BigLessFrom(a, b, n - 1)

BigLess(a, b) == BigLessFrom(a, b, Max(Len(a), Len(b)))

BigAdd(a, b) == Carry([i \in 1..Max(Len(a), Len(b)) |-> LimbAt(a, i) + LimbAt(b, i)], 0)

\* a - b for a >= b.
BigSub(a, b) == Carry([i \in 1..Max(Len(a), Len(b)) |-> LimbAt(a, i) - LimbAt(b, i)], 0)

\* The sum of a[i] * b[k + 1 - i] over the limbs i..Len(a) of a.
RECURSIVE Column(_, _, _, _)
Column(a, b, k, i) ==
    IF i > Len(a) \/ i > k THEN 0
    ELSE a[i] * LimbAt(b, k + 1 - i) + Column(a, b, k, i + 1)

\* a * b for numbers of at most four limbs.
BigMul(a, b) == Carry([k \in 1..(Len(a) + Len(b) - 1) |-> Column(a, b, k, 1)], 0)

\* The number of bits of a limb, and of a natural number.
RECURSIVE BitsOf(_)
BitsOf(x) == IF x = 0 THEN 0 ELSE 1 + BitsOf(x \div 2)

BitLen(a) ==
    IF BigIsZero(a) THEN 0
    ELSE (Limbs(a, Len(a)) - 1) * LimbBits + BitsOf(a[Limbs(a, Len(a))])

\* a * 2^n.
ShiftLeft(a, n) ==
    Carry([i \in 1..(n \div LimbBits) |-> 0] \o [i \in 1..Len(a) |-> a[i] * 2^(n % LimbBits)], 0)

\* floor(a / 2^n).
ShiftRight(a, n) ==
    [i \in 1..Max(Len(a) - (n \div LimbBits), 0) |->
        (a[i + (n \div LimbBits)] \div 2^(n % LimbBits))
            + (LimbAt(a, i + (n \div LimbBits) + 1) % 2^(n % LimbBits))
                  * 2^(LimbBits - (n % LimbBits))]

\* The bit of weight 2^n of a.
BitAt(a, n) == (LimbAt(a, (n \div LimbBits) + 1) \div 2^(n % LimbBits)) % 2

\* a has a bit set below the bit of weight 2^n.
LowBits(a, n) ==
    \/ \E i \in 1..Len(a) : i <= n \div LimbBits /\ a[i] # 0
    \/ LimbAt(a, (n \div LimbBits) + 1) % 2^(n % LimbBits) # 0

\* The limbs of a as exactly n limbs (a fits).
Fit(a, n) == [i \in 1..n |-> LimbAt(a, i)]

\* r - qhat * den, limb by limb from limb i with the borrow carry: the limbs
\* of the difference, and the borrow left after the last limb of r, which is
\* negative when qhat * den is more than r.
RECURSIVE SubMul(_, _, _, _, _, _)
SubMul(r, den, qhat, i, carry, acc) ==
    IF i > Len(r) THEN [limbs |-> acc, borrow |-> carry]
    ELSE SubMul(r, den, qhat, i + 1, (r[i] - qhat * LimbAt(den, i) + carry) \div Limb,
                Append(acc, (r[i] - qhat * LimbAt(den, i) + carry) % Limb))

\* Schoolbook division, one limb of the quotient at a time.  The divisor den
\* has four limbs with the top bit of the fourth set; r < den is the remainder
\* so far, q the quotient so far, and the n lowest limbs of low are still to
\* be brought down.  The estimate qhat of the next limb, from the two top
\* limbs of the remainder and the top limb of the divisor, is never too small
\* and is lowered until qhat * den fits into the remainder.
RECURSIVE DivDigits(_, _, _, _, _)
RECURSIVE DivTry(_, _, _, _, _, _)
DivTry(q, r, low, n, den, qhat) ==
    CHOOSE x \in {IF d.borrow < 0 THEN DivTry(q, r, low, n, den, qhat - 1)
                   ELSE DivDigits(<<qhat>> \o q, d.limbs, low, n - 1, den) :
                   d \in {SubMul(r, den, qhat, 1, 0, <<>>)}} : TRUE

DivBring(q, r, low, n, den) ==
    DivTry(q, r, low, n, den, Min(Limb - 1, (r[5] * Limb + r[4]) \div den[4]))

DivDigits(q, r, low, n, den) ==
    IF n = 0 THEN [q |-> q, rest |-> ~BigIsZero(r)]
    ELSE DivBring(q, <<low[n], r[1], r[2], r[3], r[4]>>, low, n, den)

\* floor((hi * Limb^Len(low) + low) / den) and whether a remainder is left,
\* for hi < 2 * den.
BigDivide(hi, low, den) ==
    IF BigLess(hi, den) THEN DivDigits(<<0>>, hi, low, Len(low), den)
    ELSE DivDigits(<<1>>, Fit(BigSub(hi, den), 4), low, Len(low), den)

Zero4 == <<0, 0, 0, 0>>

NaN == [k |-> "nan", s |-> 1, m |-> Zero4, e |-> 0]

Inf(s) == [k |-> "inf", s |-> s, m |-> Zero4, e |-> 0]

Zero(s) == [k |-> "fin", s |-> s, m |-> Zero4, e |-> -1074]

IsFinite(a) == a.k = "fin"

IsNaN(a) == a.k = "nan"

IsZero(a) == a.k = "fin" /\ a.m = Zero4

\* The float nearest to s * (m + t) * 2^e, m a natural number of any length
\* and t a part below 1 of which only whether it is zero (sticky) is known;
\* when sticky, m has at least 55 bits.
RoundTo(s, m, e, sticky, exp) ==
    IF exp <= e
    THEN [k |-> "fin", s |-> s, m |-> Fit(ShiftLeft(m, e - exp), 4), e |-> exp]
    ELSE CHOOSE r \in {
            IF BitLen(up) > 53 THEN (IF exp + 1 > 971 THEN Inf(s)
                                     ELSE [k |-> "fin", s |-> s, m |-> Fit(ShiftRight(up, 1), 4), e |-> exp + 1])
            ELSE [k |-> "fin", s |-> s, m |-> Fit(up, 4), e |-> exp] :
            up \in {IF BitAt(m, exp - e - 1) = 1
                       /\ (sticky \/ LowBits(m, exp - e - 1) \/ BitAt(m, exp - e) = 1)
                    THEN BigAdd(ShiftRight(m, exp - e), <<1>>)
                    ELSE ShiftRight(m, exp - e)}} : TRUE

Round(s, m, e, sticky) ==
    IF BigIsZero(m) THEN Zero(s)
    ELSE IF e + BitLen(m) - 53 > 971 THEN Inf(s)
    ELSE RoundTo(s, m, e, sticky, Max(e + BitLen(m) - 53, -1074))

\* The float of an integer below Limb^2 in absolute value.
FromInt(i) ==
    IF i = 0 THEN Zero(1) ELSE Round(IF i < 0 THEN -1 ELSE 1, Carry(<<>>, Abs(i)), 0, FALSE)

\* The floats of the integers of small absolute value, computed once.
SmallInt == 300

SmallFloats == [i \in (-SmallInt)..SmallInt |-> FromInt(i)]

Num(i) == IF Abs(i) <= SmallInt THEN SmallFloats[i] ELSE FromInt(i)

FNeg(a) == IF IsNaN(a) THEN NaN ELSE [a EXCEPT !.s = -a.s]

FMul(a, b) ==
    IF IsNaN(a) \/ IsNaN(b) THEN NaN
    ELSE IF ~IsFinite(a) \/ ~IsFinite(b)
         THEN (IF IsZero(a) \/ IsZero(b) THEN NaN ELSE Inf(a.s * b.s))
    ELSE IF IsZero(a) \/ IsZero(b) THEN Zero(a.s * b.s)
    ELSE Round(a.s * b.s, BigMul(a.m, b.m), a.e + b.e, FALSE)

\* The quotient of two finite nonzero floats: both significands are shifted
\* to 56 bits, and the quotient of the dividend times 2^56 by the divisor has
\* 56 or 57 bits.
QuotientAligned(a, b, sa, sb) ==
    CHOOSE r \in {Round(a.s * b.s, d.q, a.e - sa - b.e + sb - 56, d.rest) :
                    d \in {BigDivide(Fit(ShiftLeft(a.m, sa), 4), Zero4, Fit(ShiftLeft(b.m, sb), 4))}} : TRUE

Quotient(a, b) == QuotientAligned(a, b, 56 - BitLen(a.m), 56 - BitLen(b.m))

\* A division that substitutes 0 for a zero divisor.
FDivGuarded(a, b) ==
    IF IsNaN(a) \/ IsNaN(b) THEN NaN
    ELSE IF ~IsFinite(a) THEN (IF ~IsFinite(b) THEN NaN ELSE Inf(a.s * b.s))
    ELSE IF ~IsFinite(b) THEN Zero(a.s * b.s)
    ELSE IF IsZero(b) THEN Zero(1)
    ELSE IF IsZero(a) THEN Zero(a.s * b.s)
    ELSE Quotient(a, b)

\* Float division: x/0 is an infinity of the sign of x and of the zero, 0/0
\* and inf/inf are NaN, nothing raises.
FDiv(a, b) ==
    IF IsNaN(a) \/ IsNaN(b) THEN NaN
    ELSE IF ~IsFinite(a) THEN (IF ~IsFinite(b) THEN NaN ELSE Inf(a.s * b.s))
    ELSE IF ~IsFinite(b) THEN Zero(a.s * b.s)
    ELSE IF IsZero(b) THEN (IF IsZero(a) THEN NaN ELSE Inf(a.s * b.s))
    ELSE IF IsZero(a) THEN Zero(a.s * b.s)
    ELSE Quotient(a, b)

\* The sum of two finite nonzero floats a and b with a.e >= b.e.  When the
\* exponents are more than 64 apart, b only decides the rounding: it counts
\* as a part below one unit of a's significand shifted by two bits.
AddAligned(a, b) ==
    IF a.e - b.e > 64
    THEN (IF a.s = b.s THEN Round(a.s, ShiftLeft(a.m, 2), a.e - 2, TRUE)
          ELSE Round(a.s, BigSub(ShiftLeft(a.m, 2), <<1>>), a.e - 2, TRUE))
    ELSE CHOOSE r \in {
            IF a.s = b.s THEN Round(a.s, BigAdd(am, b.m), b.e, FALSE)
            ELSE IF BigLess(am, b.m) THEN Round(b.s, BigSub(b.m, am), b.e, FALSE)
            ELSE IF BigLess(b.m, am) THEN Round(a.s, BigSub(am, b.m), b.e, FALSE)
            ELSE Zero(1) :
            am \in {ShiftLeft(a.m, a.e - b.e)}} : TRUE

FAdd(a, b) ==
    IF IsNaN(a) \/ IsNaN(b) THEN NaN
    ELSE IF ~IsFinite(a) THEN (IF ~IsFinite(b) /\ a.s # b.s THEN NaN ELSE a)
    ELSE IF ~IsFinite(b) THEN b
    ELSE IF IsZero(a) /\ IsZero(b) THEN (IF a.s = b.s THEN a ELSE Zero(1))
    ELSE IF IsZero(a) THEN b
    ELSE IF IsZero(b) THEN a
    ELSE IF a.e >= b.e THEN AddAligned(a, b) ELSE AddAligned(b, a)

FSub(a, b) == FAdd(a, FNeg(b))

\* a < b as floats: false when either is NaN, and -0.0 is not below 0.0.
MagLess(a, b) ==
    IF ~IsFinite(a) THEN FALSE
    ELSE IF ~IsFinite(b) THEN TRUE
    ELSE IF a.e # b.e THEN a.e < b.e
    ELSE BigLess(a.m, b.m)

FLess(a, b) ==
    IF IsNaN(a) \/ IsNaN(b) THEN FALSE
    ELSE IF IsZero(a) /\ IsZero(b) THEN FALSE
    ELSE IF a.s # b.s THEN a.s < b.s
    ELSE IF a.s = 1 THEN MagLess(a, b)
    ELSE MagLess(b, a)

\* The largest integer whose square is at most t, found bit by bit from the
\* bit of weight 2^i downwards.
RECURSIVE IntSqrt(_, _, _)
IntSqrt(t, r, i) ==
    IF i < 0 THEN r
    ELSE IF (r + 2^i) * (r + 2^i) <= t THEN IntSqrt(t, r + 2^i, i - 1)
    ELSE IntSqrt(t, r, i - 1)

\* The largest natural number whose square is at most n, for n of 111 or
\* 112 bits: Newton's iteration downwards from r, which is at least the root.
RECURSIVE Newton(_, _)
Newton(n, r) ==
    CHOOSE x \in {IF BigLess(next, r) THEN Newton(n, next) ELSE r :
                    next \in {ShiftRight(BigAdd(r, BigDivide([i \in 1..4 |-> n[i + 4]],
                                                               [i \in 1..4 |-> n[i]], r).q), 1)}} : TRUE

\* The iteration starts from the root of the two top limbs of n, rounded up.
BigSqrt(n) ==
    Fit(Newton(n, IF IntSqrt(n[8] * Limb + n[7], 0, LimbBits - 1) + 1 < Limb
                  THEN <<0, 0, 0, IntSqrt(n[8] * Limb + n[7], 0, LimbBits - 1) + 1>>
                  ELSE <<Limb - 1, Limb - 1, Limb - 1, Limb - 1>>), 4)

\* The square root of a finite positive float: its significand is shifted by
\* k bits to 111 or 112 bits with an even exponent, whose integer root has 56
\* bits.
RootRounded(e, n, root) == Round(1, root, e, BigLess(BigMul(root, root), n))

RootShifted(a, k) ==
    CHOOSE r \in {RootRounded((a.e - k) \div 2, n, BigSqrt(n)) : n \in {Fit(ShiftLeft(a.m, k), 8)}} : TRUE

FSqrt(a) ==
    IF IsNaN(a) THEN NaN
    ELSE IF IsZero(a) THEN a
    ELSE IF a.s = -1 THEN NaN
    ELSE IF ~IsFinite(a) THEN a
    ELSE RootShifted(a, 111 - BitLen(a.m) + ((a.e - (111 - BitLen(a.m))) % 2))

\* -------------------------------------------------------------- DataFrame
Range(s) == {s[i] : i \in 1..Len(s)}

HasCol(d, c) == c \in Range(d.columns)

NRows(d) == IF Len(d.columns) = 0 THEN 0 ELSE Len(d.data[d.columns[1]])

\* df[c] = values: an existing column is overwritten in place, a new one is
\* appended after the last column.
SetCol(d, c, values) ==
    [columns |-> IF HasCol(d, c) THEN d.columns ELSE Append(d.columns, c),
     data |-> [k \in DOMAIN d.data \cup {c} |-> IF k = c THEN values ELSE d.data[k]]]

\* A frame made of the given columns, in order.
Frame(cols, column) ==
    [columns |-> cols, data |-> [c \in Range(cols) |-> column[c]]]

\* series / scalar and series / series, row by row.
SeriesDivScalar(s, k) == [i \in 1..Len(s) |-> FDiv(s[i], Num(k))]

SeriesDiv(a, b) == [i \in 1..Len(a) |-> FDiv(a[i], b[i])]

SeriesMul(a, b) == [i \in 1..Len(a) |-> FMul(a[i], b[i])]

\* The outcome of a call: a value, or the fault that ended it.
Ok(v) == [status |-> "ok", value |-> v]

KeyError == [status |-> "KeyError"]

\* --------------------------------------------------------- normalisations
\* get_per_90 with the unit of get_per_30_tip.
get_per_90_unit30(d, metric_per_match) ==
    IF ~HasCol(d, metric_per_match) \/ ~HasCol(d, minutes_played_per_match)
    THEN KeyError
    ELSE Ok(SeriesDiv(d.data[metric_per_match],
                      SeriesDivScalar(d.data[minutes_played_per_match], 30)))

get_per_90(d, metric_per_match) ==
    IF ~HasCol(d, metric_per_match) \/ ~HasCol(d, minutes_played_per_match)
    THEN KeyError
    ELSE Ok(SeriesDiv(d.data[metric_per_match],
                      SeriesDivScalar(d.data[minutes_played_per_match], 90)))

get_per_30_tip(d, metric_per_match) ==
    IF ~HasCol(d, metric_per_match) \/ ~HasCol(d, adjusted_min_tip_per_match)
    THEN KeyError
    ELSE Ok(SeriesDiv(d.data[metric_per_match],
                      SeriesDivScalar(d.data[adjusted_min_tip_per_match], 30)))

\* get_per_100 multiplying by the adjustment instead of dividing by it.
get_per_100_times(d, metric_per_match, adjustment_metric_per_match) ==
    IF ~HasCol(d, metric_per_match) \/ ~HasCol(d, adjustment_metric_per_match)
    THEN KeyError
    ELSE Ok(SeriesMul(d.data[metric_per_match],
                      SeriesDivScalar(d.data[adjustment_metric_per_match], 100)))

get_per_100(d, metric_per_match, adjustment_metric_per_match) ==
    IF ~HasCol(d, metric_per_match) \/ ~HasCol(d, adjustment_metric_per_match)
    THEN KeyError
    ELSE Ok(SeriesDiv(d.data[metric_per_match],
                      SeriesDivScalar(d.data[adjustment_metric_per_match], 100)))

\* ----------------------------------------------------------------- strings
\* sub in s: sub occurs in s as a contiguous substring.
Contains(sub, s) ==
    \E i \in 1..(Len(s) - Len(sub) + 1) : SubSeq(s, i, i + Len(sub) - 1) = sub

\* s.replace(old, new): every non-overlapping occurrence of old, found from
\* left to right, is replaced by new (old is not empty).
RECURSIVE Replace(_, _, _)
Replace(s, old, new) ==
    IF Len(s) < Len(old) THEN s
    ELSE IF SubSeq(s, 1, Len(old)) = old
         THEN new \o Replace(SubSeq(s, Len(old) + 1, Len(s)), old, new)
         ELSE <<s[1]>> \o Replace(Tail(s), old, new)

\* The test that selects the columns add_per_30_tip_metrics derives from.
IsCountMetric(col) == Contains(tok_count, col) /\ Contains(tok_per_match, col)

\* The loop of add_per_30_tip_metrics from the k-th of the columns cols the
\* frame had when the loop began; st is [df, metrics, status].  A fault of
\* get_per_30_tip ends the call and leaves the frame as it then is.
RECURSIVE AddLoop(_, _, _)
AddLoop(cols, k, st) ==
    IF k > Len(cols) \/ st.status # "ok" THEN st
    ELSE LET col == cols[k]
             new == Replace(col, tok_per_match, tok_per_30_tip)
             r == get_per_30_tip(st.df, col)
         IN  IF ~IsCountMetric(col) THEN AddLoop(cols, k + 1, st)
             ELSE IF r.status # "ok"
                  THEN [df |-> st.df, metrics |-> st.metrics, status |-> r.status]
             ELSE AddLoop(cols, k + 1,
                          [df |-> SetCol(st.df, new, r.value),
                           metrics |-> Append(st.metrics, new),
                           status |-> "ok"])

add_per_30_tip_metrics(d) ==
    AddLoop(d.columns, 1, [df |-> d, metrics |-> <<>>, status |-> "ok"])

\* ------------------------------------------------------------------ charts
\* Python's None, for an omitted column name, list or threshold: a value that
\* is no sequence, so that `is None` is false of the empty name and of the
\* empty list.  A threshold that is given is the one-element sequence of its
\* value.
None == [i \in {0} |-> 0]

base_color == "#80CBA2"

primary_highlight_color == "#EE7A6F"

secondary_highlight_color == "#F6C243"

\* The identifier strings.
Alphabet == <<"A", "B", "C", "D">>

\* The strings a column may hold, in the order Python gives them: the
\* colours, the identifiers, the categories and the swarm classes.
StringOrder ==
    <<"#80CBA2", "#EE7A6F", "#F6C243", "A", "B", "C", "D", "G1", "G2",
      "background_group", "primary_highlight_group", "secondary_highlight_group">>

StrLess(a, b) ==
    \E i, j \in 1..Len(StringOrder) : StringOrder[i] = a /\ StringOrder[j] = b /\ i < j

\* The kind of the sort keys a column holds: the identifiers, the categories
\* and the working columns swarm_group and colour hold strings, every other
\* column numbers.
KeyKind(c) == IF c \in {player_name, col_group, swarm_group, colour} THEN "str" ELSE "num"

\* a sorts before b, for two sort keys of the kind "str" or "num": a missing
\* number (NaN) sorts after every number.
KeyLess(kind, a, b) ==
    IF kind = "str" THEN StrLess(a, b)
    ELSE IF IsNaN(a) THEN FALSE
    ELSE IF IsNaN(b) THEN TRUE
    ELSE FLess(a, b)

\* The members of 1..n that satisfy Keep, in ascending order.
RECURSIVE FilterUpTo(_, _)
FilterUpTo(n, keep) ==
    IF n = 0 THEN <<>>
    ELSE IF n \in keep THEN Append(FilterUpTo(n - 1, keep), n) ELSE FilterUpTo(n - 1, keep)

\* The positions of keys in ascending order of the key, equal keys in their
\* former order, missing keys last.
StableArgSort(keys, kind) ==
    [pos \in 1..Len(keys) |->
        CHOOSE i \in 1..Len(keys) :
            Cardinality({j \in 1..Len(keys) :
                            \/ KeyLess(kind, keys[j], keys[i])
                            \/ (~KeyLess(kind, keys[i], keys[j]) /\ j < i)}) = pos - 1]

\* sort_values sorts with kind='quicksort': numpy's argsort of that kind, an
\* introsort over the permutation t of the positions of the keys v.  A range
\* pl..pr of more than 17 positions is partitioned around the median of its
\* first, middle and last key, the larger part is put on the stack and the
\* smaller one is gone on with; a range of at most 17 is sorted by insertion,
\* which keeps equal keys in order; a range taken from the stack once the
\* depth allowed (twice the binary logarithm of the number of keys) is used
\* up is sorted by heapsort.
Swap(t, i, j) == [t EXCEPT ![i] = t[j], ![j] = t[i]]

\* if (less(v[t[j]], v[t[i]])) swap(t[i], t[j]).
SwapIfLess(v, kind, t, i, j) ==
    IF KeyLess(kind, v[t[j]], v[t[i]]) THEN Swap(t, i, j) ELSE t

MedianOfThree(v, kind, t, pl, pm, pr) ==
    SwapIfLess(v, kind, SwapIfLess(v, kind, SwapIfLess(v, kind, t, pl, pm), pm, pr), pl, pm)

\* do ++pi while (less(v[t[pi]], vp)), entered at pi, and the same downwards.
RECURSIVE ScanUp(_, _, _, _, _)
ScanUp(v, kind, t, vp, pi) ==
    IF KeyLess(kind, v[t[pi]], vp) THEN ScanUp(v, kind, t, vp, pi + 1) ELSE pi

RECURSIVE ScanDown(_, _, _, _, _)
ScanDown(v, kind, t, vp, pj) ==
    IF KeyLess(kind, vp, v[t[pj]]) THEN ScanDown(v, kind, t, vp, pj - 1) ELSE pj

\* The partition loop around the key vp, from the pointers pi and pj.
RECURSIVE Partition(_, _, _, _, _, _)
Partition(v, kind, t, vp, pi, pj) ==
    LET i == ScanUp(v, kind, t, vp, pi + 1)
        j == ScanDown(v, kind, t, vp, pj - 1)
    IN  IF i >= j THEN [t |-> t, pi |-> i]
        ELSE Partition(v, kind, Swap(t, i, j), vp, i, j)

\* The insertion sort of the range pl..pr of t.
InsertionSort(v, kind, t, pl, pr) ==
    LET order == StableArgSort([k \in 1..(pr - pl + 1) |-> v[t[pl + k - 1]]], kind)
    IN  [i \in 1..Len(t) |-> IF pl <= i /\ i <= pr THEN t[pl + order[i - pl + 1] - 1] ELSE t[i]]

\* The heapsort of numpy on the sequence a of n positions: tmp sinks from
\* the place i, whose first child is j.
RECURSIVE SiftDown(_, _, _, _, _, _, _)
SiftDown(v, kind, a, tmp, i, j, n) ==
    IF j > n THEN [a EXCEPT ![i] = tmp]
    ELSE LET c == IF j < n /\ KeyLess(kind, v[a[j]], v[a[j + 1]]) THEN j + 1 ELSE j
         IN  IF KeyLess(kind, v[tmp], v[a[c]])
             THEN SiftDown(v, kind, [a EXCEPT ![i] = a[c]], tmp, c, c + c, n)
             ELSE [a EXCEPT ![i] = tmp]

RECURSIVE Heapify(_, _, _, _, _)
Heapify(v, kind, a, l, n) ==
    IF l = 0 THEN a
    ELSE Heapify(v, kind, SiftDown(v, kind, a, a[l], l, 2 * l, n), l - 1, n)

RECURSIVE HeapDrain(_, _, _, _)
HeapDrain(v, kind, a, n) ==
    IF n <= 1 THEN a
    ELSE HeapDrain(v, kind, SiftDown(v, kind, [a EXCEPT ![n] = a[1]], a[n], 1, 2, n - 1), n - 1)

HeapSort(v, kind, t, pl, pr) ==
    LET n == pr - pl + 1
        a == HeapDrain(v, kind, Heapify(v, kind, [k \in 1..n |-> t[pl + k - 1]], n \div 2, n), n)
    IN  [i \in 1..Len(t) |-> IF pl <= i /\ i <= pr THEN a[i - pl + 1] ELSE t[i]]

\* The loop of the quicksort on the range pl..pr, and the next range taken
\* from the stack; an entry of the stack is <<pl, pr, depth left>>.
RECURSIVE QuickSortRange(_, _, _, _, _, _, _)
RECURSIVE QuickSortPop(_, _, _, _)
QuickSortRange(v, kind, t, pl, pr, stack, cdepth) ==
    IF pr - pl > 16
    THEN LET pm == pl + ((pr - pl) \div 2)
             m == MedianOfThree(v, kind, t, pl, pm, pr)
             p == Partition(v, kind, Swap(m, pm, pr - 1), v[m[pm]], pl, pr - 1)
             u == Swap(p.t, p.pi, pr - 1)
         IN  IF p.pi - pl < pr - p.pi
             THEN QuickSortRange(v, kind, u, pl, p.pi - 1,
                                 Append(stack, <<p.pi + 1, pr, cdepth - 1>>), cdepth - 1)
             ELSE QuickSortRange(v, kind, u, p.pi + 1, pr,
                                 Append(stack, <<pl, p.pi - 1, cdepth - 1>>), cdepth - 1)
    ELSE QuickSortPop(v, kind, InsertionSort(v, kind, t, pl, pr), stack)

QuickSortPop(v, kind, t, stack) ==
    IF stack = <<>> THEN t
    ELSE LET top == stack[Len(stack)]
             rest == SubSeq(stack, 1, Len(stack) - 1)
         IN  IF top[3] < 0
             THEN QuickSortPop(v, kind, HeapSort(v, kind, t, top[1], top[2]), rest)
             ELSE QuickSortRange(v, kind, t, top[1], top[2], rest, top[3])

\* The position of the highest bit of n > 0.
RECURSIVE Msb(_)
Msb(n) == IF n <= 1 THEN 0 ELSE 1 + Msb(n \div 2)

QuickArgSort(v, kind) ==
    IF Len(v) <= 17 THEN StableArgSort(v, kind)
    ELSE QuickSortRange(v, kind, [k \in 1..Len(v) |-> k], 1, Len(v), <<>>, 2 * Msb(Len(v)))

\* A sort key that is missing.
IsMissing(kind, a) == kind # "str" /\ IsNaN(a)

\* sort_values: the positions of keys in ascending order of the key.  The
\* keys that are not missing are sorted by the quicksort, which keeps equal
\* keys in their former order when they are at most 17; the missing keys
\* come last, in their former order.
ArgSort(keys, kind) ==
    LET present == FilterUpTo(Len(keys), {i \in 1..Len(keys) : ~IsMissing(kind, keys[i])})
        missing == FilterUpTo(Len(keys), {i \in 1..Len(keys) : IsMissing(kind, keys[i])})
        order == QuickArgSort([k \in 1..Len(present) |-> keys[present[k]]], kind)
    IN  IF Len(present) <= 17 THEN StableArgSort(keys, kind)
        ELSE [k \in 1..Len(present) |-> present[order[k]]] \o missing

\* ndarray.sum of the n values of s from the place lo on: fewer than 8 are
\* added from the first to the last; up to 128 are added in 8 interleaved
\* partial sums, these pairwise, and then the values past the last multiple
\* of 8 one by one; more are split in two halves, the first a multiple of 8.
RECURSIVE AddInOrder(_, _, _, _)
AddInOrder(acc, s, i, j) ==
    IF i > j THEN acc ELSE AddInOrder(FAdd(acc, s[i]), s, i + 1, j)

RECURSIVE AddEighth(_, _, _, _)
AddEighth(acc, s, i, end) ==
    IF i >= end THEN acc ELSE AddEighth(FAdd(acc, s[i]), s, i + 8, end)

RECURSIVE PairwiseSum(_, _, _)
PairwiseSum(s, lo, n) ==
    IF n < 8 THEN AddInOrder(Num(0), s, lo, lo + n - 1)
    ELSE IF n <= 128
    THEN LET end == lo + n - (n % 8)
             r == [j \in 0..7 |-> AddEighth(s[lo + j], s, lo + j + 8, end)]
         IN  AddInOrder(FAdd(FAdd(FAdd(r[0], r[1]), FAdd(r[2], r[3])),
                             FAdd(FAdd(r[4], r[5]), FAdd(r[6], r[7]))),
                        s, end, lo + n - 1)
    ELSE LET n2 == (n \div 2) - ((n \div 2) % 8)
         IN  FAdd(PairwiseSum(s, lo, n2), PairwiseSum(s, lo + n2, n - n2))

\* The sum of all values of s, a missing one making it NaN.
SumValues(s) == FAdd(Num(0), PairwiseSum(s, 1, Len(s)))

\* The reductions of a Series skip its missing values (skipna): the sum and
\* the mean add the values with 0 in the place of each missing one.
FillMissing(s) == [i \in 1..Len(s) |-> IF IsNaN(s[i]) THEN Num(0) ELSE s[i]]

SumSeries(s) == SumValues(FillMissing(s))

\* The number of values of a Series that are not missing.
Count(s) == Cardinality({i \in 1..Len(s) : ~IsNaN(s[i])})

\* Series.max() and Series.min(): NaN when no value is left.
SeriesMax(s) ==
    IF Count(s) = 0 THEN NaN
    ELSE CHOOSE v \in Range(s) : ~IsNaN(v) /\ \A w \in Range(s) : ~FLess(v, w)

SeriesMin(s) ==
    IF Count(s) = 0 THEN NaN
    ELSE CHOOSE v \in Range(s) : ~IsNaN(v) /\ \A w \in Range(s) : ~FLess(w, v)

SeriesMean(s) == FDiv(SumSeries(s), Num(Count(s)))

Square(a) == FMul(a, a)

\* Series.std(): the square root of the sample variance (ddof = 1), the sum
\* of the squared distances to the mean over one less than the count; NaN
\* for fewer than two values.  The distance of a missing value counts as 0;
\* a distance that is NaN for another reason (inf - inf) makes the sum NaN.
SquaredDistances(s, avg) ==
    [i \in 1..Len(s) |-> IF IsNaN(s[i]) THEN Num(0) ELSE Square(FSub(avg, s[i]))]

StdAround(s, avg) ==
    IF Count(s) <= 1 THEN NaN
    ELSE FSqrt(FDiv(SumValues(SquaredDistances(s, avg)), Num(Count(s) - 1)))

SeriesStd(s) == StdAround(s, SeriesMean(s))

\* s.mean() + k * s.std() (k is an integer).
SdThreshold(s, k) ==
    CHOOSE r \in {FAdd(avg, FMul(Num(k), StdAround(s, avg))) : avg \in {SeriesMean(s)}} : TRUE

\* v > s.mean() + k * s.std(): false when the right-hand side or v is NaN.
ExceedsSd(v, s, k) == FLess(SdThreshold(s, k), v)

\* The rows of the frame d as records of the columns a chart reads: the row
\* number, the identifier and the values of the columns xc and yc.
RowsOf(d, xc, yc) ==
    [i \in 1..NRows(d) |->
        [row |-> i, id |-> d.data[player_name][i], x |-> d.data[xc][i], y |-> d.data[yc][i]]]

\* rows.sort_values(by=...): the rows in ascending order of their keys.  (A
\* value is bound to a name by CHOOSE r \in {e(v) : v \in {value}} : TRUE.)
SortRows(rows, keys, kind) ==
    CHOOSE r \in {[k \in 1..Len(rows) |-> rows[order[k]]] :
                     order \in {ArgSort(keys, kind)}} : TRUE

\* The column x, and the column id, of a sequence of rows.
XOf(rows) == [k \in 1..Len(rows) |-> rows[k].x]

IdOf(rows) == [k \in 1..Len(rows) |-> rows[k].id]

\* The bar colour chosen by the loop over the bars of plot_bar_chart.
BarColour(id, primary_highlight_group, secondary_highlight_group) ==
    LET c1 == IF id \in secondary_highlight_group \/ id \in primary_highlight_group
              THEN secondary_highlight_color ELSE base_color
    IN  IF id \in primary_highlight_group THEN primary_highlight_color ELSE c1

plot_bar_chart(d, x_metric, primary_highlight_group, secondary_highlight_group) ==
    IF ~HasCol(d, x_metric) \/ ~HasCol(d, player_name) THEN KeyError
    ELSE CHOOSE r \in {
                [status |-> "ok",
                 bars |-> [k \in 1..Len(sorted) |->
                             [row |-> sorted[k].row,
                              width |-> sorted[k].x,
                              colour |-> BarColour(sorted[k].id, primary_highlight_group,
                                                   secondary_highlight_group),
                              axhline |-> sorted[k].id \in secondary_highlight_group
                                            \cup primary_highlight_group]],
                 yticklabels |-> [k \in 1..Len(sorted) |->
                                    [text |-> sorted[k].id,
                                     weight |-> IF sorted[k].id \in secondary_highlight_group
                                                     \cup primary_highlight_group
                                                THEN "bold" ELSE "normal"]]] :
              sorted \in {SortRows(RowsOf(d, x_metric, x_metric), d.data[x_metric], "num")}} : TRUE

\* The marker sizes of plot_scatter: the rescale of column z into
\* [new_min, new_max].
new_max == 300

new_min == 50

\* The rescale multiplying by new_max instead of the new range.
RescaleByNewMax(v, old_min, old_max) ==
    FAdd(FDiv(FMul(FSub(v, old_min), Num(new_max)), FSub(old_max, old_min)),
         Num(new_min))

\* The rescale giving the default size to a single-valued column.
RescaleGuarded(v, old_min, old_max) ==
    IF old_max = old_min THEN Num(100)
    ELSE FAdd(FDiv(FMul(FSub(v, old_min), Num(new_max - new_min)), FSub(old_max, old_min)),
              Num(new_min))

Rescale(v, old_min, old_max) ==
    FAdd(FDiv(FMul(FSub(v, old_min), Num(new_max - new_min)), FSub(old_max, old_min)),
         Num(new_min))

Sizes(z) ==
    CHOOSE r \in {[i \in 1..Len(z) |-> Rescale(z[i], old_min, old_max)] :
                     old_min \in {SeriesMin(z)}, old_max \in {SeriesMax(z)}} : TRUE

default_size == 100

\* The colour of a row of label_group: the base colour, overwritten for the
\* secondary group and then for the primary group.
\* label_group colours with the two overwrites in the other order.
LabelColourSecondaryLast(id, primary_highlight_group, secondary_highlight_group) ==
    LET c1 == IF id \in primary_highlight_group THEN primary_highlight_color ELSE base_color
    IN  IF id \in secondary_highlight_group THEN secondary_highlight_color ELSE c1

LabelColour(id, primary_highlight_group, secondary_highlight_group) ==
    LET c1 == IF id \in secondary_highlight_group THEN secondary_highlight_color
              ELSE base_color
    IN  IF id \in primary_highlight_group THEN primary_highlight_color ELSE c1

\* The rows of label_group: the rows over a threshold, when thresholds are
\* given, and the rows of the two highlight groups.
LabelMask(rows, xs, ys, x_sd_highlight, y_sd_highlight, highlighted) ==
    IF x_sd_highlight # None
    THEN CHOOSE r \in {SelectSeq(rows, LAMBDA q : \/ FLess(x_threshold, q.x)
                                                  \/ FLess(y_threshold, q.y)
                                                  \/ q.id \in highlighted) :
                         x_threshold \in {SdThreshold(xs, x_sd_highlight[1])},
                         y_threshold \in {SdThreshold(ys, y_sd_highlight[1])}} : TRUE
    ELSE SelectSeq(rows, LAMBDA q : q.id \in highlighted)

\* The value of column c in the row of label_group taken from row i of df:
\* colour and fontweight are the columns assigned to label_group, whatever df
\* holds under these names.
LabelValue(d, i, c, primary_highlight_group, secondary_highlight_group) ==
    IF c = colour
    THEN LabelColour(d.data[player_name][i], primary_highlight_group, secondary_highlight_group)
    ELSE IF c = fontweight THEN "bold"
    ELSE d.data[c][i]

\* plot_scatter from the selection of label_group on, d being df with its
\* working columns assigned (sum_minutes_played when it is the z_metric, and
\* size): every column is read from that frame, the texts from label_group.
ScatterDraw(d, x_metric, y_metric, z_metric, x_sd_highlight, y_sd_highlight, primary_highlight_group, secondary_highlight_group) ==
    IF x_sd_highlight # None /\ (~HasCol(d, x_metric) \/ ~HasCol(d, y_metric))
    THEN KeyError
    ELSE IF x_sd_highlight # None /\ y_sd_highlight = None
    THEN [status |-> "TypeError"]
    ELSE IF ~HasCol(d, player_name) \/ ~HasCol(d, x_metric) \/ ~HasCol(d, y_metric)
    THEN KeyError
    ELSE
    CHOOSE r \in {
           [status |-> "ok",
            size |-> d.data[size],
            label_group |-> [k \in 1..Len(rows) |->
                               [row |-> rows[k].row,
                                colour |-> LabelColour(rows[k].id, primary_highlight_group,
                                                       secondary_highlight_group),
                                fontweight |-> "bold",
                                size |-> d.data[size][rows[k].row]]],
            texts |-> IF Len(rows) > 0
                      THEN [k \in 1..Len(rows) |->
                              [x |-> LabelValue(d, rows[k].row, x_metric, primary_highlight_group,
                                                secondary_highlight_group),
                               y |-> LabelValue(d, rows[k].row, y_metric, primary_highlight_group,
                                                secondary_highlight_group),
                               text |-> rows[k].id]]
                      ELSE <<>>,
            size_legend |-> IF z_metric # None THEN <<"High", "Average", "Low">> ELSE <<>>] :
         rows \in {LabelMask(RowsOf(d, x_metric, y_metric), d.data[x_metric],
                             d.data[y_metric], x_sd_highlight, y_sd_highlight,
                             secondary_highlight_group \cup primary_highlight_group)}} : TRUE

\* The size column taken from the minutes played when no z_metric is given.
ScatterSizesMinutes(d, z_metric) ==
    IF z_metric = None /\ (~HasCol(d, minutes_played_per_match) \/ ~HasCol(d, count_match))
    THEN Ok([i \in 1..NRows(d) |-> Num(default_size)])
    ELSE IF z_metric = None \/ z_metric = sum_minutes_played
    THEN (IF ~HasCol(d, minutes_played_per_match) \/ ~HasCol(d, count_match) THEN KeyError
          ELSE Ok(Sizes(SeriesDivScalar(SeriesMul(d.data[minutes_played_per_match],
                                                  d.data[count_match]), 10))))
    ELSE IF ~HasCol(d, z_metric) THEN KeyError
    ELSE Ok(Sizes(d.data[z_metric]))

\* The size column of plot_scatter, or the fault of its lookups.
ScatterSizes(d, z_metric) ==
    IF z_metric = None THEN Ok([i \in 1..NRows(d) |-> Num(default_size)])
    ELSE IF z_metric = sum_minutes_played
    THEN (IF ~HasCol(d, minutes_played_per_match) \/ ~HasCol(d, count_match) THEN KeyError
          ELSE Ok(Sizes(SeriesDivScalar(SeriesMul(d.data[minutes_played_per_match],
                                                  d.data[count_match]), 10))))
    ELSE IF ~HasCol(d, z_metric) THEN KeyError
    ELSE Ok(Sizes(d.data[z_metric]))

\* df once plot_scatter has assigned its working columns: sum_minutes_played
\* when it is the z_metric, then size.
ScatterFrame(d, sizes, z_metric) ==
    SetCol(IF z_metric = sum_minutes_played
           THEN SetCol(d, sum_minutes_played,
                       SeriesDivScalar(SeriesMul(d.data[minutes_played_per_match],
                                                 d.data[count_match]), 10))
           ELSE d,
           size, sizes)

plot_scatter(d, x_metric, y_metric, z_metric, x_sd_highlight, y_sd_highlight, primary_highlight_group, secondary_highlight_group) ==
    CHOOSE r \in {
           IF sizes.status # "ok" THEN sizes
           ELSE ScatterDraw(ScatterFrame(d, sizes.value, z_metric), x_metric, y_metric, z_metric,
                            x_sd_highlight, y_sd_highlight, primary_highlight_group,
                            secondary_highlight_group) :
         sizes \in {ScatterSizes(d, z_metric)}} : TRUE

\* Series.unique(): the values in order of first appearance.
RECURSIVE Unique(_)
Unique(s) ==
    IF s = <<>> THEN <<>>
    ELSE CHOOSE r \in {IF s[Len(s)] \in Range(front) THEN front
                        ELSE Append(front, s[Len(s)]) :
                          front \in {Unique(SubSeq(s, 1, Len(s) - 1))}} : TRUE

\* The swarm class and colour of a row of plot_swarm_violin: background,
\* overwritten for the primary group and then for the secondary group.
\* A classification whose default is the primary class.
SwarmGroupNoBackground(id, primary_highlight_group, secondary_highlight_group) ==
    IF id \in secondary_highlight_group THEN "secondary_highlight_group"
    ELSE "primary_highlight_group"

SwarmGroup(id, primary_highlight_group, secondary_highlight_group) ==
    LET g1 == IF id \in primary_highlight_group THEN "primary_highlight_group"
              ELSE "background_group"
    IN  IF id \in secondary_highlight_group THEN "secondary_highlight_group" ELSE g1

SwarmColour(id, primary_highlight_group, secondary_highlight_group) ==
    LET c1 == IF id \in primary_highlight_group THEN primary_highlight_color ELSE base_color
    IN  IF id \in secondary_highlight_group THEN secondary_highlight_color ELSE c1

\* The palette sns.set_palette leaves as the process-wide default.
SwarmPalette == <<secondary_highlight_color, primary_highlight_color>>

\* The value column c of plot_data holds in the row of the identifier id
\* once swarm_group and colour are assigned, original being the value the
\* caller's dataset holds there.
SwarmValue(c, id, original, primary_highlight_group, secondary_highlight_group) ==
    IF c = swarm_group THEN SwarmGroup(id, primary_highlight_group, secondary_highlight_group)
    ELSE IF c = colour THEN SwarmColour(id, primary_highlight_group, secondary_highlight_group)
    ELSE original

\* plot_data: the rows whose y the caller's dataset has in the y groups, with
\* their class and colour, sorted by identifier.  x and y are the values of
\* the columns x_metric and y_metric of plot_data, which are the class or the
\* colour when the column is named swarm_group or colour.
SwarmPlotData(rows, x_metric, y_metric, y_groups, primary_highlight_group, secondary_highlight_group) ==
    CHOOSE r \in {
           [k \in 1..Len(sorted) |->
               [row |-> sorted[k].row, id |-> sorted[k].id,
                x |-> SwarmValue(x_metric, sorted[k].id, sorted[k].x,
                                 primary_highlight_group, secondary_highlight_group),
                y |-> SwarmValue(y_metric, sorted[k].id, sorted[k].y,
                                 primary_highlight_group, secondary_highlight_group),
                swarm_group |-> SwarmGroup(sorted[k].id, primary_highlight_group,
                                           secondary_highlight_group),
                colour |-> SwarmColour(sorted[k].id, primary_highlight_group,
                                       secondary_highlight_group)]] :
         sorted \in {SortRows(kept, IdOf(kept), "str") :
                        kept \in {SelectSeq(rows, LAMBDA q : q.y \in Range(y_groups))}}} : TRUE

\* label_df of a y group: its rows of plot_data by ascending x, the
\* background rows removed.
LabelDf(plot_data, group, x_metric) ==
    CHOOSE r \in {SelectSeq(SortRows(members, XOf(members), KeyKind(x_metric)),
                            LAMBDA q : q.swarm_group # "background_group") :
                     members \in {SelectSeq(plot_data, LAMBDA q : q.y = group)}} : TRUE

\* The x and the y of a point (offset) the plotting library reports.
OffsetX(tup) == tup[1]

OffsetY(tup) == tup[2]

\* The x of the k-th label: column x_metric of label_df once the columns
\* plotted_metric and y hold the x and the y of the offsets.
LabelX(label_df, x_metric, offsets, k) ==
    IF x_metric = col_y THEN OffsetY(offsets[k])
    ELSE IF x_metric = plotted_metric THEN OffsetX(offsets[k])
    ELSE label_df[k].x

\* The labels of a y group, offsets being the points of the highlight
\* collection of the group: placed when the collection holds as many points
\* as label_df has rows, the k-th label at the y of the k-th point.
GroupLabels(plot_data, group, x_metric, offsets) ==
    CHOOSE r \in {
           [n_labelled |-> Len(label_df),
            n_offsets |-> Len(offsets),
            texts |-> IF Len(label_df) = Len(offsets)
                      THEN [k \in 1..Len(label_df) |->
                              [x |-> LabelX(label_df, x_metric, offsets, k),
                               y |-> OffsetY(offsets[k]),
                               text |-> label_df[k].id]]
                      ELSE <<>>] :
         label_df \in {LabelDf(plot_data, group, x_metric)}} : TRUE

\* The groups plot_swarm_violin draws for the argument y_groups.
YGroupsOf(d, y_metric, y_groups_arg) ==
    IF y_groups_arg = None THEN Unique(d.data[y_metric]) ELSE y_groups_arg

\* group_df and label_df are made by reset_index, one after the other: the
\* first inserts a column index, or level_0 when the frame has a column
\* index, the second then a column level_0; inserting a column the frame has
\* is a ValueError, so the two fail on a dataset that has either column.
ResetIndexFails(d) == HasCol(d, index) \/ HasCol(d, level_0)

\* plot_swarm_violin.  collections holds what the plotting library reports:
\* the points of the collections of the axes after the first 2 * len(y_groups)
\* of them, the g-th being read as the highlight collection of the g-th y
\* group.  The loop over the groups ends in a ValueError at its first group
\* when reset_index fails, and else in an IndexError at the first group
\* whose collection the axes do not have, the palette being set and the
\* labels of the groups before it placed.
plot_swarm_violin(d, x_metric, y_metric, y_groups_arg, primary_highlight_group, secondary_highlight_group, collections) ==
    IF ~HasCol(d, y_metric) THEN KeyError
    ELSE IF ~HasCol(d, x_metric) THEN [status |-> "ValueError"]
    ELSE IF ~HasCol(d, player_name) THEN KeyError
    ELSE
    CHOOSE r \in {
           [status |-> IF primary_highlight_group = {} /\ secondary_highlight_group = {}
                       THEN "ok"
                       ELSE IF Len(y_groups) > 0 /\ ResetIndexFails(d) THEN "ValueError"
                       ELSE IF Len(collections) < Len(y_groups) THEN "IndexError"
                       ELSE "ok",
            y_groups |-> y_groups,
            plot_data |-> plot_data,
            palette |-> SwarmPalette,
            highlight_swarm |-> primary_highlight_group # {} \/ secondary_highlight_group # {},
            labels |-> IF (primary_highlight_group # {} \/ secondary_highlight_group # {})
                             /\ ~ResetIndexFails(d)
                       THEN [g \in 1..Min(Len(y_groups), Len(collections)) |->
                               GroupLabels(plot_data, y_groups[g], x_metric, collections[g])]
                       ELSE <<>>] :
         y_groups \in {YGroupsOf(d, y_metric, y_groups_arg)},
         plot_data \in {SwarmPlotData(RowsOf(d, x_metric, y_metric), x_metric, y_metric,
                                      YGroupsOf(d, y_metric, y_groups_arg),
                                      primary_highlight_group,
                                      secondary_highlight_group)}} : TRUE

\* ------------------------------------------------- frame objects of a call
\* A frame object a call works on: the frame, the index label of each of its
\* rows, and whether it is the object the caller passed (alias) or another.
\* The parameter df of a call is the caller's object.
Object(d) == [frame |-> d, index |-> [i \in 1..NRows(d) |-> i], alias |-> TRUE]

\* The column written into the object itself (df[c] = values).
AssignInPlace(obj, c, values) ==
    [frame |-> SetCol(obj.frame, c, values), index |-> obj.index, alias |-> obj.alias]

\* DataFrame.assign: a new object with the column c set.
Assign(obj, c, values) ==
    [frame |-> SetCol(obj.frame, c, values), index |-> obj.index, alias |-> FALSE]

\* A new object holding the rows at the positions pos, in that order (the
\* result of a boolean selection or of a sort).
TakeRows(obj, pos) ==
    [frame |-> [columns |-> obj.frame.columns,
                data |-> [c \in DOMAIN obj.frame.data |->
                            [k \in 1..Len(pos) |-> obj.frame.data[c][pos[k]]]]],
     index |-> [k \in 1..Len(pos) |-> obj.index[pos[k]]],
     alias |-> FALSE]

\* DataFrame.sort_values(by=...).
SortValues(obj, by, kind) == TakeRows(obj, ArgSort(obj.frame.data[by], kind))

\* The caller's frame once a call holds the object obj: what the call wrote
\* into the caller's own object is the caller's to see.
CallerAfter(caller, obj) == IF obj.alias THEN obj.frame ELSE caller

\* A call in progress moves on to the statements pc after those of step.
Advance(c, step, pc) == [c EXCEPT !.pc = pc, !.steps = Append(@, step)]

\* A call ended by a fault.
Raise(c, status) == [c EXCEPT !.pc = "raised", !.status = status]

\* The call returned.
Return(c, step) == [c EXCEPT !.pc = "returned", !.status = "ok", !.steps = Append(@, step)]

\* ------------------------------------------- plot_scatter, step by step
\* A selection that asks for both thresholds to be exceeded.
LabelPositionsBothAxes(d, x_metric, y_metric, x_sd_highlight, y_sd_highlight, highlighted) ==
    IF x_sd_highlight = None
    THEN FilterUpTo(NRows(d), {i \in 1..NRows(d) : d.data[player_name][i] \in highlighted})
    ELSE CHOOSE r \in {
            FilterUpTo(NRows(d),
                       {i \in 1..NRows(d) :
                           \/ /\ FLess(x_threshold, d.data[x_metric][i])
                              /\ FLess(y_threshold, d.data[y_metric][i])
                           \/ d.data[player_name][i] \in highlighted}) :
            x_threshold \in {SdThreshold(d.data[x_metric], x_sd_highlight[1])},
            y_threshold \in {SdThreshold(d.data[y_metric], y_sd_highlight[1])}} : TRUE

\* A selection that applies each threshold that is given.
LabelPositionsEither(d, x_metric, y_metric, x_sd_highlight, y_sd_highlight, highlighted) ==
    FilterUpTo(NRows(d),
               {i \in 1..NRows(d) :
                   \/ /\ x_sd_highlight # None
                      /\ ExceedsSd(d.data[x_metric][i], d.data[x_metric], x_sd_highlight[1])
                   \/ /\ y_sd_highlight # None
                      /\ ExceedsSd(d.data[y_metric][i], d.data[y_metric], y_sd_highlight[1])
                   \/ d.data[player_name][i] \in highlighted})

\* The positions of the rows of label_group in df.
LabelPositions(d, x_metric, y_metric, x_sd_highlight, y_sd_highlight, highlighted) ==
    IF x_sd_highlight = None
    THEN FilterUpTo(NRows(d), {i \in 1..NRows(d) : d.data[player_name][i] \in highlighted})
    ELSE CHOOSE r \in {
            FilterUpTo(NRows(d),
                       {i \in 1..NRows(d) :
                           \/ FLess(x_threshold, d.data[x_metric][i])
                           \/ FLess(y_threshold, d.data[y_metric][i])
                           \/ d.data[player_name][i] \in highlighted}) :
            x_threshold \in {SdThreshold(d.data[x_metric], x_sd_highlight[1])},
            y_threshold \in {SdThreshold(d.data[y_metric], y_sd_highlight[1])}} : TRUE

\* The size column: sum_minutes_played is added when it is the z_metric,
\* then size.
ScatterSizeStep(c) ==
    CHOOSE r \in {
        IF sizes.status # "ok" THEN Raise(c, sizes.status)
        ELSE Advance([c EXCEPT !.local =
                        Assign(IF c.z_metric = sum_minutes_played
                               THEN Assign(c.local, sum_minutes_played,
                                           SeriesDivScalar(
                                               SeriesMul(c.local.frame.data[minutes_played_per_match],
                                                         c.local.frame.data[count_match]), 10))
                               ELSE c.local,
                               size, sizes.value)],
                     "size", "classify") :
        sizes \in {ScatterSizes(c.local.frame, c.z_metric)}} : TRUE

\* A classification after which the texts are placed without the markers
\* having been drawn.
ScatterClassifySkipRender(c, x_metric, y_metric) ==
    IF c.x_sd_highlight # None
          /\ (~HasCol(c.local.frame, x_metric) \/ ~HasCol(c.local.frame, y_metric))
    THEN Raise(c, "KeyError")
    ELSE IF c.x_sd_highlight # None /\ c.y_sd_highlight = None THEN Raise(c, "TypeError")
    ELSE IF ~HasCol(c.local.frame, player_name) THEN Raise(c, "KeyError")
    ELSE CHOOSE r \in {
            Advance([c EXCEPT !.label_group =
                        Assign(Assign(selected, colour,
                                      [k \in 1..Len(selected.index) |->
                                          LabelColour(selected.frame.data[player_name][k],
                                                      c.primary, c.secondary)]),
                               fontweight, [k \in 1..Len(selected.index) |-> "bold"])],
                    "classify", "label") :
            selected \in {TakeRows(c.local,
                                   LabelPositions(c.local.frame, x_metric, y_metric,
                                                  c.x_sd_highlight, c.y_sd_highlight,
                                                  c.secondary \cup c.primary))}} : TRUE

\* label_group: the selection of the rows, then their colour and fontweight.
ScatterClassifyStep(c, x_metric, y_metric) ==
    IF c.x_sd_highlight # None
          /\ (~HasCol(c.local.frame, x_metric) \/ ~HasCol(c.local.frame, y_metric))
    THEN Raise(c, "KeyError")
    ELSE IF c.x_sd_highlight # None /\ c.y_sd_highlight = None THEN Raise(c, "TypeError")
    ELSE IF ~HasCol(c.local.frame, player_name) THEN Raise(c, "KeyError")
    ELSE CHOOSE r \in {
            Advance([c EXCEPT !.label_group =
                        Assign(Assign(selected, colour,
                                      [k \in 1..Len(selected.index) |->
                                          LabelColour(selected.frame.data[player_name][k],
                                                      c.primary, c.secondary)]),
                               fontweight, [k \in 1..Len(selected.index) |-> "bold"])],
                    "classify", "render") :
            selected \in {TakeRows(c.local,
                                   LabelPositions(c.local.frame, x_metric, y_metric,
                                                  c.x_sd_highlight, c.y_sd_highlight,
                                                  c.secondary \cup c.primary))}} : TRUE

\* The markers of a frame object that has a size column, in the colour of
\* its colour column when coloured, else in the base colour.
Markers(obj, x_metric, y_metric, coloured) ==
    [k \in 1..Len(obj.index) |->
        [row |-> obj.index[k],
         x |-> obj.frame.data[x_metric][k],
         y |-> obj.frame.data[y_metric][k],
         s |-> obj.frame.data[size][k],
         c |-> IF coloured THEN obj.frame.data[colour][k] ELSE base_color]]

\* The two ax.scatter calls: all rows, then label_group over them.
ScatterRenderStep(c, x_metric, y_metric) ==
    IF ~HasCol(c.local.frame, x_metric) \/ ~HasCol(c.local.frame, y_metric)
    THEN Raise(c, "KeyError")
    ELSE Advance([c EXCEPT !.points = Markers(c.local, x_metric, y_metric, FALSE),
                           !.overlay = Markers(c.label_group, x_metric, y_metric, TRUE)],
                 "render", "label")

\* The texts of label_group and their placement by adjust_text.
ScatterLabelStep(c, x_metric, y_metric) ==
    Advance([c EXCEPT !.texts =
                IF Len(c.label_group.index) > 0
                THEN [k \in 1..Len(c.label_group.index) |->
                        [x |-> c.label_group.frame.data[x_metric][k],
                         y |-> c.label_group.frame.data[y_metric][k],
                         text |-> c.label_group.frame.data[player_name][k]]]
                ELSE <<>>],
            "label", "legend")

\* The average lines, the annotations and the legend; the call returns.
ScatterLegendStep(c) ==
    Return([c EXCEPT !.size_legend =
               IF c.z_metric # None THEN <<"High", "Average", "Low">> ELSE <<>>],
           "legend")

\* ----------------------------------------- plot_bar_chart, step by step
\* df = df.sort_values(by=x_metric).
BarSortStep(c, x_metric) ==
    IF ~HasCol(c.local.frame, x_metric) THEN Raise(c, "KeyError")
    ELSE Advance([c EXCEPT !.local = SortValues(c.local, x_metric, "num")], "sort", "render")

\* ax.barh: one bar per row in the base colour.
BarRenderStep(c, x_metric) ==
    Advance([c EXCEPT !.bars =
                [k \in 1..Len(c.local.index) |->
                    [row |-> c.local.index[k],
                     width |-> c.local.frame.data[x_metric][k],
                     colour |-> base_color,
                     axhline |-> FALSE]]],
            "render", "classify")

\* The loop over the bars that colours those of the highlight groups.
BarClassifyStep(c) ==
    IF Len(c.bars) > 0 /\ ~HasCol(c.local.frame, player_name) THEN Raise(c, "KeyError")
    ELSE Advance([c EXCEPT !.bars =
                    [k \in 1..Len(c.bars) |->
                        [c.bars[k] EXCEPT
                            !.colour = BarColour(c.local.frame.data[player_name][k],
                                                 c.primary, c.secondary),
                            !.axhline = c.local.frame.data[player_name][k]
                                            \in c.secondary \cup c.primary]]],
                 "classify", "label")

\* The y tick labels, bold for the highlight groups; the call returns.
BarLabelStep(c) ==
    IF ~HasCol(c.local.frame, player_name) THEN Raise(c, "KeyError")
    ELSE Return([c EXCEPT !.yticklabels =
                    [k \in 1..Len(c.local.index) |->
                        [text |-> c.local.frame.data[player_name][k],
                         weight |-> IF c.local.frame.data[player_name][k]
                                         \in c.secondary \cup c.primary
                                    THEN "bold" ELSE "normal"]]],
                "label")

\* -------------------------------------- plot_swarm_violin, step by step
\* y_groups and plot_data = df[df[y_metric].isin(y_groups)].
SwarmFilterStep(c, y_metric) ==
    IF ~HasCol(c.local.frame, y_metric) THEN Raise(c, "KeyError")
    ELSE CHOOSE r \in {
            Advance([c EXCEPT !.y_groups = y_groups,
                              !.plot_data =
                                  TakeRows(c.local,
                                           FilterUpTo(NRows(c.local.frame),
                                                      {i \in 1..NRows(c.local.frame) :
                                                          c.local.frame.data[y_metric][i]
                                                              \in Range(y_groups)}))],
                    "filter", "violin") :
            y_groups \in {YGroupsOf(c.local.frame, y_metric, c.y_groups_arg)}} : TRUE

\* sns.violinplot of plot_data.
SwarmViolinStep(c, x_metric) ==
    IF ~HasCol(c.plot_data.frame, x_metric) THEN Raise(c, "ValueError")
    ELSE Advance([c EXCEPT !.violins = TRUE], "violin", "classify")

\* The columns swarm_group and colour of plot_data.
SwarmClassifyStep(c) ==
    IF ~HasCol(c.plot_data.frame, player_name) THEN Raise(c, "KeyError")
    ELSE Advance([c EXCEPT !.plot_data =
                    Assign(Assign(c.plot_data, swarm_group,
                                  [k \in 1..Len(c.plot_data.index) |->
                                      SwarmGroup(c.plot_data.frame.data[player_name][k],
                                                 c.primary, c.secondary)]),
                           colour,
                           [k \in 1..Len(c.plot_data.index) |->
                               SwarmColour(c.plot_data.frame.data[player_name][k],
                                           c.primary, c.secondary)])],
                 "classify", "palette")

\* sns.set_palette.
SwarmPaletteStep(c) == Advance(c, "palette", "sort")

\* plot_data = plot_data.sort_values(by=data_point_id).
SwarmSortStep(c) ==
    Advance([c EXCEPT !.plot_data = SortValues(c.plot_data, player_name, "str")],
            "sort", "render")

\* The rows of the classified plot_data as records.
RowRecords(obj, x_metric, y_metric) ==
    [k \in 1..Len(obj.index) |->
        [row |-> obj.index[k],
         id |-> obj.frame.data[player_name][k],
         x |-> obj.frame.data[x_metric][k],
         y |-> obj.frame.data[y_metric][k],
         swarm_group |-> obj.frame.data[swarm_group][k],
         colour |-> obj.frame.data[colour][k]]]

\* sns.swarmplot of all rows, then of the highlighted rows when a highlight
\* group is given.
SwarmRenderStep(c, x_metric, y_metric) ==
    Advance([c EXCEPT !.points = RowRecords(c.plot_data, x_metric, y_metric),
                      !.highlight_swarm = c.primary # {} \/ c.secondary # {}],
            "render", "label")

\* The labels of the highlighted rows, group by group; the call returns.
SwarmLabelStep(c, x_metric, y_metric, collections) ==
    IF ~c.highlight_swarm THEN Return([c EXCEPT !.collections = collections], "label")
    ELSE IF Len(c.y_groups) > 0 /\ ResetIndexFails(c.plot_data.frame)
    THEN Raise([c EXCEPT !.collections = collections], "ValueError")
    ELSE CHOOSE r \in {
            IF Len(collections) < Len(c.y_groups)
            THEN Raise([c EXCEPT !.collections = collections, !.labels = labels], "IndexError")
            ELSE Return([c EXCEPT !.collections = collections, !.labels = labels], "label") :
            labels \in {[g \in 1..Min(Len(c.y_groups), Len(collections)) |->
                           GroupLabels(RowRecords(c.plot_data, x_metric, y_metric),
                                       c.y_groups[g], x_metric, collections[g])]}} : TRUE

\* ------------------------------------------------------------------ inputs
\* Sequences over S of length 1..n.
SeqsUpTo(S, n) == UNION {[1..k -> S] : k \in 1..n}

\* Rows of the normalisation datasets, a metric and a denominator: the rows
\* of the example, a row whose quotient is rounded, and rows with a
\* denominator of 0.0 and of -0.0.
NormRows ==
    {<<Num(10), Num(90)>>, <<Num(20), Num(45)>>, <<Num(30), Num(30)>>,
     <<Num(1), Num(23)>>, <<Num(0), Num(0)>>, <<Num(10), FNeg(Num(0))>>}

DenomCols == {minutes_played_per_match, adjusted_min_tip_per_match, count_b_per_match}

\* Datasets of the normalisation functions: a metric column and one
\* denominator column.
NormFrames ==
    {Frame(<<count_a_per_match, dc>>,
           [c \in {count_a_per_match, dc} |->
               IF c = dc THEN [i \in 1..Len(rows) |-> rows[i][2]]
               ELSE [i \in 1..Len(rows) |-> rows[i][1]]]) :
        dc \in DenomCols, rows \in SeqsUpTo(NormRows, MaxRows)}

\* Datasets of add_per_30_tip_metrics: any selection of these columns, in
\* this order; column c holds base[c] * i in row i.
TipColumns == <<count_a_per_match, account_per_match, count_b_per_match,
                count_a_per_30_tip, adjusted_min_tip_per_match, count_match,
                minutes_played_per_match>>

\* The members of the sequence s that are in the set S, in the order of s.
RECURSIVE Select(_, _)
Select(s, S) ==
    IF s = <<>> THEN <<>>
    ELSE IF s[1] \in S THEN <<s[1]>> \o Select(Tail(s), S) ELSE Select(Tail(s), S)

BaseVals == {0, 30}

TipFrames ==
    {Frame(Select(TipColumns, cs), [c \in cs |-> [i \in 1..n |-> Num(base[c] * i)]]) :
        cs \in (SUBSET Range(TipColumns)) \ {{}},
        n \in 1..MaxRows,
        base \in [Range(TipColumns) -> BaseVals]}

\* Datasets of the chart functions for the classification: an identifier,
\* a number and a category per row.
MaxPlotRows == 2

Ids == {"A", "B"}

YCategories == {"G1", "G2"}

\* The rows of these datasets: each identifier in either category, the two
\* rows of a category with different numbers.
ClassRows ==
    {<<"A", Num(1), "G1">>, <<"A", Num(2), "G2">>,
     <<"B", Num(2), "G1">>, <<"B", Num(1), "G2">>}

PlainClassFrames ==
    {Frame(<<player_name, col_x, col_y, col_group>>,
           [c \in {player_name, col_x, col_y, col_group} |->
               [i \in 1..Len(rows) |->
                   IF c = player_name THEN rows[i][1]
                   ELSE IF c = col_group THEN rows[i][3]
                   ELSE rows[i][2]]]) :
        rows \in SeqsUpTo(ClassRows, MaxPlotRows)}

\* Datasets of one row that also have a column named as reset_index names
\* the column it inserts, as a dataset whose index was reset has.
IndexedClassFrames ==
    {SetCol(d, e, [i \in 1..NRows(d) |-> Num(i)]) :
        d \in {q \in PlainClassFrames : NRows(q) = 1}, e \in {index, level_0}}

\* Datasets that come with columns named swarm_group and colour, every row
\* holding the secondary class and colour there.
StyledClassFrames ==
    {SetCol(SetCol(d, swarm_group, [i \in 1..NRows(d) |-> "secondary_highlight_group"]),
            colour, [i \in 1..NRows(d) |-> secondary_highlight_color]) :
        d \in PlainClassFrames}

ClassFrames == PlainClassFrames \cup IndexedClassFrames \cup StyledClassFrames

HighlightGroups == SUBSET Ids

YGroupArgs == {None, <<"G1">>}

\* What the plotting library may report.  The highlight collection of a group
\* holds, relative to the number of highlighted rows of the group, one point
\* fewer, as many, or one more.
OffsetDeltas == {-1, 0, 1}

\* The points of a collection lie at the height of the group on the axis,
\* moved by this number of halves.
Jitters == {0, 1}

\* The number of highlight collections the axes lack.
MissingCollections == {0, 1}

Half == FDiv(Num(1), Num(2))

\* The height of the points of the g-th group moved by jitter halves.
Heights ==
    [g \in 1..Cardinality(YCategories) |->
        [jitter \in Jitters |-> FAdd(Num(g - 1), FMul(Num(jitter), Half))]]

\* The n points of the collection of the g-th group, the k-th at x = k.
Points(g, n, jitter) == [k \in 1..n |-> <<Num(k), Heights[g][jitter]>>]

\* What the library reports in a call: the deltas of the groups are drawn
\* from deltas; with as many points as highlighted rows in every group, the
\* points may be moved, or the collection of the last group be missing.
LibraryReports(deltas) ==
    {[delta |-> d, jitter |-> 0, missing |-> 0] : d \in deltas}
    \cup {[delta |-> [g \in 1..Cardinality(YCategories) |-> 0], jitter |-> j, missing |-> m] :
            j \in Jitters, m \in MissingCollections}

\* The same delta in every group, or a delta in one group only.
UniformDeltas == {[g \in 1..Cardinality(YCategories) |-> d] : d \in OffsetDeltas}

PerGroupDeltas ==
    UniformDeltas
    \cup {[g \in 1..Cardinality(YCategories) |-> IF g = h THEN d ELSE 0] :
            h \in 1..Cardinality(YCategories), d \in OffsetDeltas}

\* The x_metric of plot_swarm_violin and what the library reports in the
\* call, for the dataset d.  A plain dataset is plotted by the column x, or
\* by the column y with points that are moved; a dataset with the columns
\* swarm_group and colour by either of them, the library reporting as many
\* points as highlighted rows; a dataset with a column index or level_0 by
\* the column x.
SwarmCalls(d) ==
    IF HasCol(d, swarm_group) /\ HasCol(d, colour)
    THEN {[x_metric |-> e, report |-> r] :
            e \in {swarm_group, colour},
            r \in {q \in LibraryReports({}) : q.missing = 0}}
    ELSE IF ResetIndexFails(d)
    THEN {[x_metric |-> col_x, report |-> r] : r \in LibraryReports(UniformDeltas)}
    ELSE {[x_metric |-> col_x, report |-> r] : r \in LibraryReports(PerGroupDeltas)}
         \cup {[x_metric |-> col_y, report |-> r] :
                 r \in {q \in LibraryReports({}) : q.jitter = 1 /\ q.missing = 0}}

\* The thresholds of plot_scatter: none, or the mean itself.
SdArgs == {None, <<0>>}

\* Datasets of plot_scatter for the marker sizes: row i is the i-th
\* identifier at (i, i), with a z column, in which a value may be missing,
\* or with the two columns sum_minutes_played is computed from.
ZVals == {Num(0), Num(3), Num(5), Num(10), NaN}

MinutesVals == {Num(45), Num(90)}

MatchVals == {Num(1), Num(2)}

IdOfRow(i) == Alphabet[((i - 1) % Len(Alphabet)) + 1]

SizeFrames ==
    {Frame(<<player_name, col_x, col_y, col_z>>,
           [c \in {player_name, col_x, col_y, col_z} |->
               [i \in 1..Len(z) |->
                   IF c = player_name THEN IdOfRow(i)
                   ELSE IF c = col_z THEN z[i] ELSE Num(i)]]) :
        z \in SeqsUpTo(ZVals, MaxRows)}
    \cup
    {Frame(<<player_name, col_x, col_y, minutes_played_per_match, count_match>>,
           [c \in {player_name, col_x, col_y, minutes_played_per_match, count_match} |->
               [i \in 1..Len(rows) |->
                   IF c = player_name THEN IdOfRow(i)
                   ELSE IF c = minutes_played_per_match THEN rows[i][1]
                   ELSE IF c = count_match THEN rows[i][2] ELSE Num(i)]]) :
        rows \in SeqsUpTo(MinutesVals \X MatchVals, MaxRows)}

\* The size column a call names: none, a column of the frame, the computed
\* minutes, or the empty name, which is a name and no column.
ZMetricArgs == {None, col_z, sum_minutes_played, <<>>}

\* The x column a call names: a column of the frame, or the working column
\* the function assigns before it draws.
XMetricArgs == {col_x, size}

NoCall == [fn |-> "none"]

DefaultPalette == "default"

\* ----------------------------------------------------------------- actions
\* Calls do not nest: ret holds the result of the call that returned last
\* until the caller drops it, and the next call starts after that.
Discard ==
    /\ ret # NoCall
    /\ ret' = NoCall
    /\ UNCHANGED <<df, palette>>

CallGetPer90 ==
    /\ ret = NoCall
    /\ ret' = [fn |-> "get_per_90", args |-> <<count_a_per_match>>,
               out |-> get_per_90(df, count_a_per_match)]
    /\ UNCHANGED <<df, palette>>

CallGetPer30Tip ==
    /\ ret = NoCall
    /\ ret' = [fn |-> "get_per_30_tip", args |-> <<count_a_per_match>>,
               out |-> get_per_30_tip(df, count_a_per_match)]
    /\ UNCHANGED <<df, palette>>

CallGetPer100 ==
    /\ ret = NoCall
    /\ ret' = [fn |-> "get_per_100", args |-> <<count_a_per_match, count_b_per_match>>,
               out |-> get_per_100(df, count_a_per_match, count_b_per_match)]
    /\ UNCHANGED <<df, palette>>

\* add_per_30_tip_metrics writes into the caller's frame and returns it with
\* the list of the names it generated.
CallAddPer30TipMetrics ==
    /\ ret = NoCall
    /\ LET r == add_per_30_tip_metrics(df)
       IN  /\ df' = r.df
           /\ ret' = [fn |-> "add_per_30_tip_metrics", pre |-> df,
                      out |-> IF r.status = "ok" THEN Ok(r.metrics)
                              ELSE [status |-> r.status]]
    /\ UNCHANGED palette

InitTip ==
    /\ df \in TipFrames
    /\ ret = NoCall
    /\ palette = DefaultPalette

NextTip == CallAddPer30TipMetrics \/ Discard

SpecTip == InitTip /\ [][NextTip]_vars

CallPlotBarChart ==
    /\ ret = NoCall
    /\ \E P \in HighlightGroups, S \in HighlightGroups :
          ret' = [fn |-> "plot_bar_chart", primary |-> P, secondary |-> S,
                  out |-> plot_bar_chart(df, col_x, P, S)]
    /\ UNCHANGED <<df, palette>>

\* plot_scatter without a size column, without thresholds or with both.
CallPlotScatter ==
    /\ ret = NoCall
    /\ \E P \in HighlightGroups, S \in HighlightGroups, sd \in SdArgs :
          ret' = [fn |-> "plot_scatter", primary |-> P, secondary |-> S,
                  z_metric |-> None, x_sd_highlight |-> sd, y_sd_highlight |-> sd,
                  out |-> plot_scatter(df, col_x, col_y, None, sd, sd, P, S)]
    /\ UNCHANGED <<df, palette>>

\* plot_scatter with or without a size column, without thresholds.
CallPlotScatterSized ==
    /\ ret = NoCall
    /\ \E P \in {{}, {"A"}}, z \in ZMetricArgs, x \in XMetricArgs :
          ret' = [fn |-> "plot_scatter", primary |-> P, secondary |-> {},
                  x_metric |-> x, z_metric |-> z,
                  x_sd_highlight |-> None, y_sd_highlight |-> None,
                  out |-> plot_scatter(df, x, col_y, z, None, None, P, {})]
    /\ UNCHANGED <<df, palette>>

\* The number of rows of category cat whose identifier is in the set H.
NHighlighted(d, y_metric, cat, H) ==
    Cardinality({i \in 1..NRows(d) :
                    d.data[y_metric][i] = cat /\ d.data[player_name][i] \in H})

\* The collections the library reports for the groups: all but the last
\* missing of them, the g-th with delta[g] points more than the group has
\* highlighted rows.
Collections(d, groups, H, report) ==
    [g \in 1..Max(Len(groups) - report.missing, 0) |->
        Points(g, Max(NHighlighted(d, col_group, groups[g], H) + report.delta[g], 0),
               report.jitter)]

CallPlotSwarmViolin ==
    /\ ret = NoCall
    /\ \E d \in {df}, P \in HighlightGroups, S \in HighlightGroups, yg \in YGroupArgs :
        \E call \in SwarmCalls(d) :
          \E collections \in {Collections(d, YGroupsOf(d, col_group, yg), P \cup S,
                                          call.report)} :
          \E out \in {plot_swarm_violin(d, call.x_metric, col_group, yg, P, S, collections)} :
            /\ ret' = [fn |-> "plot_swarm_violin", primary |-> P, secondary |-> S,
                       y_groups |-> yg, x_metric |-> call.x_metric,
                       collections |-> collections, out |-> out]
            /\ palette' = IF "palette" \in DOMAIN out THEN out.palette ELSE palette
    /\ UNCHANGED df

InitClass ==
    /\ df \in ClassFrames
    /\ ret = NoCall
    /\ palette = DefaultPalette

NextClass == CallPlotBarChart \/ CallPlotScatter \/ CallPlotSwarmViolin \/ Discard

SpecClass == InitClass /\ [][NextClass]_vars

InitSize ==
    /\ df \in SizeFrames
    /\ ret = NoCall
    /\ palette = DefaultPalette

NextSize == CallPlotScatterSized \/ Discard

SpecSize == InitSize /\ [][NextSize]_vars

InitNorm ==
    /\ df \in NormFrames
    /\ ret = NoCall
    /\ palette = DefaultPalette

NextNorm == CallGetPer90 \/ CallGetPer30Tip \/ CallGetPer100 \/ Discard

SpecNorm == InitNorm /\ [][NextNorm]_vars

\* ------------------------------------------------ the calls, step by step
\* Datasets of the step-by-step calls: an identifier, x and y per row; the
\* category of a row follows its x.
StepRows ==
    {<<"A", Num(1), Num(1)>>, <<"A", Num(2), Num(2)>>, <<"B", Num(1), Num(1)>>,
     <<"B", Num(2), Num(1)>>, <<"B", Num(1), Num(2)>>}

PlainStepFrames ==
    {Frame(<<player_name, col_x, col_y, col_group>>,
           [c \in {player_name, col_x, col_y, col_group} |->
               [i \in 1..Len(rows) |->
                   IF c = player_name THEN rows[i][1]
                   ELSE IF c = col_x THEN rows[i][2]
                   ELSE IF c = col_y THEN rows[i][3]
                   ELSE IF rows[i][2] = Num(1) THEN "G1" ELSE "G2"]]) :
        rows \in SeqsUpTo(StepRows, MaxPlotRows)}

\* With them, the datasets of one row that also have a column named as
\* reset_index names the column it inserts.
StepFrames ==
    PlainStepFrames
    \cup {SetCol(d, e, [i \in 1..NRows(d) |-> Num(i)]) :
            d \in {q \in PlainStepFrames : NRows(q) = 1}, e \in {index, level_0}}

StepPrimary == {{}, {"A"}}

StepSecondary == {{}, {"B"}}

\* Thresholds: none, the mean itself, one standard deviation over the mean
\* and one under it.
StepSdX == {None, <<0>>, <<1>>, <<-1>>}

StepSdY == {None, <<0>>}

\* Size columns: none, the y column, a column the datasets do not have.
StepZArgs == {None, col_y, col_z}

\* The z_metric, x_sd_highlight and y_sd_highlight of a call: every pair of
\* thresholds without a size column, and a size column without thresholds
\* or, to end the call at whichever fault comes first, a missing one with an
\* x threshold alone.
ScatterArgs ==
    {a \in StepZArgs \X StepSdX \X StepSdY :
        \/ a[1] = None
        \/ a[2] = None /\ a[3] = None
        \/ a[1] = col_z /\ a[2] = <<0>> /\ a[3] = None}

\* An object no statement has bound yet.
NoObject == [frame |-> [columns |-> <<>>, data |-> <<>>], index |-> <<>>, alias |-> FALSE]

\* The caller drops the result, or the fault, of the call that ended.
StepDiscard ==
    /\ ret # NoCall
    /\ ret.pc \in {"returned", "raised"}
    /\ ret' = NoCall
    /\ UNCHANGED <<df, palette>>

BeginPlotScatter ==
    /\ ret = NoCall
    /\ \E P \in StepPrimary, S \in StepSecondary, a \in ScatterArgs :
          ret' = [fn |-> "plot_scatter", pc |-> "size", status |-> "running", steps |-> <<>>,
                  pre |-> df, primary |-> P, secondary |-> S, z_metric |-> a[1],
                  x_sd_highlight |-> a[2], y_sd_highlight |-> a[3],
                  local |-> Object(df), label_group |-> NoObject,
                  points |-> <<>>, overlay |-> <<>>, texts |-> <<>>, size_legend |-> <<>>]
    /\ UNCHANGED <<df, palette>>

ScatterSize ==
    /\ ret.fn = "plot_scatter" /\ ret.pc = "size"
    /\ \E c \in {ScatterSizeStep(ret)} :
          /\ ret' = c
          /\ df' = CallerAfter(df, c.local)
    /\ UNCHANGED palette

ScatterClassify ==
    /\ ret.fn = "plot_scatter" /\ ret.pc = "classify"
    /\ \E c \in {ScatterClassifyStep(ret, col_x, col_y)} :
          /\ ret' = c
          /\ df' = CallerAfter(df, c.label_group)
    /\ UNCHANGED palette

ScatterRender ==
    /\ ret.fn = "plot_scatter" /\ ret.pc = "render"
    /\ ret' = ScatterRenderStep(ret, col_x, col_y)
    /\ UNCHANGED <<df, palette>>

ScatterLabel ==
    /\ ret.fn = "plot_scatter" /\ ret.pc = "label"
    /\ ret' = ScatterLabelStep(ret, col_x, col_y)
    /\ UNCHANGED <<df, palette>>

ScatterLegend ==
    /\ ret.fn = "plot_scatter" /\ ret.pc = "legend"
    /\ ret' = ScatterLegendStep(ret)
    /\ UNCHANGED <<df, palette>>

BeginPlotBarChart ==
    /\ ret = NoCall
    /\ \E P \in StepPrimary, S \in StepSecondary :
          ret' = [fn |-> "plot_bar_chart", pc |-> "sort", status |-> "running", steps |-> <<>>,
                  pre |-> df, primary |-> P, secondary |-> S,
                  local |-> Object(df), bars |-> <<>>, yticklabels |-> <<>>]
    /\ UNCHANGED <<df, palette>>

BarSort ==
    /\ ret.fn = "plot_bar_chart" /\ ret.pc = "sort"
    /\ \E c \in {BarSortStep(ret, col_x)} :
          /\ ret' = c
          /\ df' = CallerAfter(df, c.local)
    /\ UNCHANGED palette

BarRender ==
    /\ ret.fn = "plot_bar_chart" /\ ret.pc = "render"
    /\ ret' = BarRenderStep(ret, col_x)
    /\ UNCHANGED <<df, palette>>

BarClassify ==
    /\ ret.fn = "plot_bar_chart" /\ ret.pc = "classify"
    /\ ret' = BarClassifyStep(ret)
    /\ UNCHANGED <<df, palette>>

BarLabel ==
    /\ ret.fn = "plot_bar_chart" /\ ret.pc = "label"
    /\ ret' = BarLabelStep(ret)
    /\ UNCHANGED <<df, palette>>

BeginPlotSwarmViolin ==
    /\ ret = NoCall
    /\ \E P \in StepPrimary, S \in StepSecondary, yg \in YGroupArgs :
          ret' = [fn |-> "plot_swarm_violin", pc |-> "filter", status |-> "running",
                  steps |-> <<>>, pre |-> df, primary |-> P, secondary |-> S,
                  y_groups_arg |-> yg, y_groups |-> <<>>,
                  local |-> Object(df), plot_data |-> NoObject, violins |-> FALSE,
                  points |-> <<>>, highlight_swarm |-> FALSE, collections |-> <<>>,
                  labels |-> <<>>]
    /\ UNCHANGED <<df, palette>>

SwarmFilter ==
    /\ ret.fn = "plot_swarm_violin" /\ ret.pc = "filter"
    /\ \E c \in {SwarmFilterStep(ret, col_group)} :
          /\ ret' = c
          /\ df' = CallerAfter(df, c.plot_data)
    /\ UNCHANGED palette

SwarmViolin ==
    /\ ret.fn = "plot_swarm_violin" /\ ret.pc = "violin"
    /\ ret' = SwarmViolinStep(ret, col_x)
    /\ UNCHANGED <<df, palette>>

SwarmClassify ==
    /\ ret.fn = "plot_swarm_violin" /\ ret.pc = "classify"
    /\ \E c \in {SwarmClassifyStep(ret)} :
          /\ ret' = c
          /\ df' = CallerAfter(df, c.plot_data)
    /\ UNCHANGED palette

SwarmSetPalette ==
    /\ ret.fn = "plot_swarm_violin" /\ ret.pc = "palette"
    /\ ret' = SwarmPaletteStep(ret)
    /\ palette' = SwarmPalette
    /\ UNCHANGED df

SwarmSort ==
    /\ ret.fn = "plot_swarm_violin" /\ ret.pc = "sort"
    /\ \E c \in {SwarmSortStep(ret)} :
          /\ ret' = c
          /\ df' = CallerAfter(df, c.plot_data)
    /\ UNCHANGED palette

SwarmRender ==
    /\ ret.fn = "plot_swarm_violin" /\ ret.pc = "render"
    /\ ret' = SwarmRenderStep(ret, col_x, col_group)
    /\ UNCHANGED <<df, palette>>

\* The plotting library reports its collections.
SwarmLabel ==
    /\ ret.fn = "plot_swarm_violin" /\ ret.pc = "label"
    /\ \E report \in LibraryReports(UniformDeltas) :
          ret' = SwarmLabelStep(ret, col_x, col_group,
                                Collections(ret.pre, ret.y_groups, ret.primary \cup ret.secondary,
                                            report))
    /\ UNCHANGED <<df, palette>>

InitSteps ==
    /\ df \in StepFrames
    /\ ret = NoCall
    /\ palette = DefaultPalette

NextSteps ==
    \/ BeginPlotScatter \/ ScatterSize \/ ScatterClassify \/ ScatterRender
    \/ ScatterLabel \/ ScatterLegend
    \/ BeginPlotBarChart \/ BarSort \/ BarRender \/ BarClassify \/ BarLabel
    \/ BeginPlotSwarmViolin \/ SwarmFilter \/ SwarmViolin \/ SwarmClassify
    \/ SwarmSetPalette \/ SwarmSort \/ SwarmRender \/ SwarmLabel
    \/ StepDiscard

SpecSteps == InitSteps /\ [][NextSteps]_vars

\* A call made step by step ends as the same call made at once.
StepsAgree ==
    /\ (ret.fn = "plot_scatter" /\ ret.pc \in {"returned", "raised"}) =>
          \E out \in {plot_scatter(ret.pre, col_x, col_y, ret.z_metric, ret.x_sd_highlight,
                                   ret.y_sd_highlight, ret.primary, ret.secondary)} :
             /\ out.status = ret.status
             /\ ret.status = "ok" =>
                   /\ out.size = ret.local.frame.data[size]
                   /\ out.texts = ret.texts
                   /\ out.size_legend = ret.size_legend
                   /\ out.label_group
                        = [k \in 1..Len(ret.overlay) |->
                              [row |-> ret.overlay[k].row, colour |-> ret.overlay[k].c,
                               fontweight |-> ret.label_group.frame.data[fontweight][k],
                               size |-> ret.overlay[k].s]]
    /\ (ret.fn = "plot_bar_chart" /\ ret.pc \in {"returned", "raised"}) =>
          \E out \in {plot_bar_chart(ret.pre, col_x, ret.primary, ret.secondary)} :
             /\ out.status = ret.status
             /\ ret.status = "ok" =>
                   out.bars = ret.bars /\ out.yticklabels = ret.yticklabels
    /\ (ret.fn = "plot_swarm_violin" /\ ret.pc \in {"returned", "raised"}) =>
          \E out \in {plot_swarm_violin(ret.pre, col_x, col_group, ret.y_groups_arg,
                                        ret.primary, ret.secondary, ret.collections)} :
             /\ out.status = ret.status
             /\ "palette" \in DOMAIN out =>
                   /\ out.y_groups = ret.y_groups
                   /\ out.plot_data = ret.points
                   /\ out.palette = palette
                   /\ out.highlight_swarm = ret.highlight_swarm
                   /\ (ret.highlight_swarm => out.labels = ret.labels)


\* ------------------------------------------------- normalisation properties
Rows(d) == 1..NRows(d)

\* The frame without row j.
DropRow(d, j) ==
    [columns |-> d.columns,
     data |-> [c \in DOMAIN d.data |->
                 [i \in 1..(Len(d.data[c]) - 1) |->
                     IF i < j THEN d.data[c][i] ELSE d.data[c][i + 1]]]]

\* The frame with the columns of cs multiplied by the integer k.
ScaleCols(d, cs, k) ==
    [columns |-> d.columns,
     data |-> [c \in DOMAIN d.data |->
                 IF c \in cs THEN [i \in 1..Len(d.data[c]) |-> FMul(d.data[c][i], Num(k))]
                 ELSE d.data[c]]]

\* The normalisation named fn on the frame d, with the arguments of the call.
Normalise(fn, d) ==
    IF fn = "get_per_90" THEN get_per_90(d, count_a_per_match)
    ELSE IF fn = "get_per_30_tip" THEN get_per_30_tip(d, count_a_per_match)
    ELSE get_per_100(d, count_a_per_match, count_b_per_match)

\* The denominator column the normalisation named fn reads.
DenomOf(fn) ==
    IF fn = "get_per_90" THEN minutes_played_per_match
    ELSE IF fn = "get_per_30_tip" THEN adjusted_min_tip_per_match
    ELSE count_b_per_match

NormFns == {"get_per_90", "get_per_30_tip", "get_per_100"}

NormReturned == ret.fn \in NormFns /\ ret.out.status = "ok"

ExampleMetric == <<Num(10), Num(20), Num(30)>>

ExampleMinutes == <<Num(90), Num(45), Num(30)>>

ExamplePer90 == <<Num(10), Num(40), Num(90)>>

\* a == b as floats: NaN equals nothing and -0.0 equals 0.0.
FEq(a, b) ==
    IF IsNaN(a) \/ IsNaN(b) THEN FALSE
    ELSE IF IsZero(a) /\ IsZero(b) THEN TRUE
    ELSE a = b

\* The absolute value of a float.
FAbs(a) == IF IsNaN(a) THEN NaN ELSE [a EXCEPT !.s = 1]

\* 2^-50, four units in the last place of a float.
Tolerance == [k |-> "fin", s |-> 1, m |-> <<0, 0, 0, 1024>>, e |-> -102]

\* a and b are equal up to the rounding of a few float operations.
Close(a, b) == FEq(a, b) \/ FLess(FAbs(FSub(a, b)), FMul(Tolerance, FAbs(b)))

\* C4: every row of get_per_90 with nonzero minutes satisfies
\* result * minutes = metric * 90, and metric [10, 20, 30] with minutes
\* [90, 45, 30] yields [10, 40, 90].
C4_Per90 ==
    (ret.fn = "get_per_90" /\ ret.out.status = "ok") =>
        /\ Len(ret.out.value) = NRows(df)
        /\ \A i \in Rows(df) :
              ~IsZero(df.data[minutes_played_per_match][i]) =>
                  FEq(FMul(ret.out.value[i], df.data[minutes_played_per_match][i]),
                      FMul(df.data[count_a_per_match][i], Num(90)))
        /\ (df.data[count_a_per_match] = ExampleMetric
              /\ df.data[minutes_played_per_match] = ExampleMinutes)
                => ret.out.value = ExamplePer90

\* C4, amended: every row of get_per_90 with finite values and nonzero
\* minutes holds the float metric / (minutes / 90), so that
\* result * minutes and metric * 90 are equal up to rounding (a relative
\* difference below 2^-50); metric [10, 20, 30] with minutes [90, 45, 30]
\* yields exactly [10, 40, 90].
C4_Per90Rounded ==
    (ret.fn = "get_per_90" /\ ret.out.status = "ok") =>
        /\ Len(ret.out.value) = NRows(df)
        /\ \A i \in Rows(df) :
              ~IsZero(df.data[minutes_played_per_match][i]) =>
                  Close(FMul(ret.out.value[i], df.data[minutes_played_per_match][i]),
                        FMul(df.data[count_a_per_match][i], Num(90)))
        /\ (df.data[count_a_per_match] = ExampleMetric
              /\ df.data[minutes_played_per_match] = ExampleMinutes)
                => ret.out.value = ExamplePer90

\* A call with a row whose product is rounded next to a row whose product
\* is exact.
C4_Witness ==
    /\ ret.fn = "get_per_90" /\ ret.out.status = "ok"
    /\ \E i, j \in Rows(df) :
          /\ ~IsZero(df.data[minutes_played_per_match][i])
          /\ ~FEq(FMul(ret.out.value[i], df.data[minutes_played_per_match][i]),
                  FMul(df.data[count_a_per_match][i], Num(90)))
          /\ Close(FMul(ret.out.value[i], df.data[minutes_played_per_match][i]),
                   FMul(df.data[count_a_per_match][i], Num(90)))
          /\ df.data[count_a_per_match][j] = Num(20)
          /\ df.data[minutes_played_per_match][j] = Num(45)
          /\ ret.out.value[j] = Num(40)

Scales == {-1, 2, 3}

\* The result of get_per_100 on the frame with both columns multiplied by c.
Scaled(c) ==
    get_per_100(ScaleCols(df, {count_a_per_match, count_b_per_match}, c),
                count_a_per_match, count_b_per_match)

\* C6: multiplying the metric and the adjustment column by the same nonzero
\* constant leaves the result of get_per_100 unchanged in every row whose
\* adjustment value is nonzero.
C6_ScaleInvariant ==
    (ret.fn = "get_per_100" /\ ret.out.status = "ok") =>
        \A c \in Scales :
            \E scaled \in {Scaled(c)} :
                /\ scaled.status = "ok"
                /\ \A i \in Rows(df) :
                      ~IsZero(df.data[count_b_per_match][i]) =>
                          scaled.value[i] = ret.out.value[i]

\* The constants that scale a float without rounding it.
ExactScales == {-1, 2}

\* C6, amended: multiplying the metric and the adjustment column, both
\* finite, by the same nonzero constant changes the result of get_per_100, in
\* every row whose adjustment value is nonzero, by no more than rounding (a
\* relative difference below 2^-50), and not at all when the constant is a
\* power of two or its negative.
C6_ScaleInvariantRounded ==
    (ret.fn = "get_per_100" /\ ret.out.status = "ok") =>
        \A c \in Scales :
            \E scaled \in {Scaled(c)} :
                /\ scaled.status = "ok"
                /\ \A i \in Rows(df) :
                      ~IsZero(df.data[count_b_per_match][i]) =>
                          /\ Close(scaled.value[i], ret.out.value[i])
                          /\ c \in ExactScales => scaled.value[i] = ret.out.value[i]

\* A row whose result the constant 3 changes, within rounding.
C6_Witness ==
    /\ ret.fn = "get_per_100" /\ ret.out.status = "ok"
    /\ \E i \in Rows(df) :
          /\ ~IsZero(df.data[count_b_per_match][i])
          /\ IsFinite(ret.out.value[i])
          /\ Scaled(3).value[i] # ret.out.value[i]
          /\ Close(Scaled(3).value[i], ret.out.value[i])
          /\ Scaled(2).value[i] = ret.out.value[i]

\* C9: in the three normalisations a row with a zero denominator raises
\* nothing and gets a non-finite result, and every row with a nonzero
\* denominator gets the result it gets when the zero-denominator row is
\* absent from the dataset.
C9_ZeroDenominator ==
    (ret.fn \in NormFns /\ HasCol(df, count_a_per_match) /\ HasCol(df, DenomOf(ret.fn))) =>
        /\ ret.out.status = "ok"
        /\ \A j \in Rows(df) :
              IsZero(df.data[DenomOf(ret.fn)][j]) =>
                  /\ ~IsFinite(ret.out.value[j])
                  /\ LET without == Normalise(ret.fn, DropRow(df, j))
                     IN  /\ without.status = "ok"
                         /\ \A i \in Rows(df) \ {j} :
                               ~IsZero(df.data[DenomOf(ret.fn)][i]) =>
                                   ret.out.value[i]
                                       = without.value[IF i < j THEN i ELSE i - 1]

C9_Witness ==
    /\ NormReturned
    /\ \E j, i \in Rows(df) :
          /\ IsZero(df.data[DenomOf(ret.fn)][j])
          /\ ~IsZero(df.data[DenomOf(ret.fn)][i])
          /\ ~IsFinite(ret.out.value[j])
          /\ IsFinite(ret.out.value[i])

\* ------------------------------------------- add_per_30_tip_metrics properties
tok_per_match_suffix == <<"_">> \o tok_per_match

\* The name has the form count_X_per_match, X not empty.
IsCountXPerMatch(col) ==
    /\ Len(col) > Len(tok_count) + Len(tok_per_match_suffix)
    /\ SubSeq(col, 1, Len(tok_count)) = tok_count
    /\ SubSeq(col, Len(col) - Len(tok_per_match_suffix) + 1, Len(col)) = tok_per_match_suffix

\* count_X_per_match renamed to count_X_per_30_tip.
RenamedPer30Tip(col) ==
    SubSeq(col, 1, Len(col) - Len(tok_per_match)) \o tok_per_30_tip

AddReturned == ret.fn = "add_per_30_tip_metrics" /\ ret.out.status = "ok"

\* C5: after add_per_30_tip_metrics every column count_X_per_match has a
\* sibling count_X_per_30_tip, and the set of generated names is exactly the
\* set of the renamed columns of that form: none is generated for a column
\* of another form and none is missed.
C5_GeneratedNames ==
    AddReturned =>
        /\ \A c \in Range(ret.pre.columns) :
              IsCountXPerMatch(c) => HasCol(df, RenamedPer30Tip(c))
        /\ Range(ret.out.value)
              = {RenamedPer30Tip(c) : c \in {k \in Range(ret.pre.columns) : IsCountXPerMatch(k)}}

\* C11: add_per_30_tip_metrics only adds columns: every column the dataset
\* had before the call is still there after it with the same value in every
\* row, a column already named count_X_per_30_tip included.
C11_OnlyAddsColumns ==
    ret.fn = "add_per_30_tip_metrics" =>
        \A c \in Range(ret.pre.columns) :
            HasCol(df, c) /\ df.data[c] = ret.pre.data[c]

\* ------------------------------------------------------- chart properties
SwarmReturned == ret.fn = "plot_swarm_violin" /\ ret.out.status = "ok"

BarReturned == ret.fn = "plot_bar_chart" /\ ret.out.status = "ok"

ScatterReturned == ret.fn = "plot_scatter" /\ ret.out.status = "ok"

\* The class and colour the precedence law gives an identifier.
ClassOf(id, P, S) ==
    IF id \in P THEN "primary_highlight_group"
    ELSE IF id \in S THEN "secondary_highlight_group"
    ELSE "background_group"

ColourOf(id, P, S) ==
    IF id \in P THEN primary_highlight_color
    ELSE IF id \in S THEN secondary_highlight_color
    ELSE base_color

\* C1: in plot_swarm_violin every plotted row has the class and colour of
\* the precedence law: primary if its identifier is in the primary group
\* (also when it is in the secondary group too), else secondary if it is in
\* the secondary group, else background and the base colour.
C1_SwarmPrimaryWins ==
    SwarmReturned =>
        \A k \in 1..Len(ret.out.plot_data) :
            LET r == ret.out.plot_data[k]
            IN  /\ r.swarm_group = ClassOf(r.id, ret.primary, ret.secondary)
                /\ r.colour = ColourOf(r.id, ret.primary, ret.secondary)

\* C2: every bar of plot_bar_chart and every marker of the highlighted
\* overlay of plot_scatter has the primary colour if its identifier is in the
\* primary group (also when it is in the secondary group too), the secondary
\* colour if it is in the secondary group only, the base colour otherwise.
C2_BarScatterColour ==
    /\ BarReturned =>
          /\ Len(ret.out.bars) = NRows(df)
          /\ \A k \in 1..Len(ret.out.bars) :
                ret.out.bars[k].colour
                    = ColourOf(df.data[player_name][ret.out.bars[k].row],
                               ret.primary, ret.secondary)
    /\ ScatterReturned =>
          \A k \in 1..Len(ret.out.label_group) :
              ret.out.label_group[k].colour
                  = ColourOf(df.data[player_name][ret.out.label_group[k].row],
                             ret.primary, ret.secondary)

C2_Witness ==
    /\ ScatterReturned
    /\ \E k, m \in 1..Len(ret.out.label_group) :
          LET idk == df.data[player_name][ret.out.label_group[k].row]
              idm == df.data[player_name][ret.out.label_group[m].row]
          IN  /\ idk \in ret.primary \cap ret.secondary
              /\ ret.out.label_group[k].colour = primary_highlight_color
              /\ idm \notin ret.primary \cup ret.secondary
              /\ ret.out.label_group[m].colour = base_color

\* The column the sizes of the last plot_scatter call were computed from.
ZColumn ==
    IF ret.z_metric = sum_minutes_played
    THEN SeriesDivScalar(SeriesMul(df.data[minutes_played_per_match], df.data[count_match]), 10)
    ELSE df.data[ret.z_metric]

\* The last plot_scatter call named a size column it can read or compute.
ZAvailable ==
    /\ ret.z_metric # None
    /\ IF ret.z_metric = sum_minutes_played
       THEN HasCol(df, minutes_played_per_match) /\ HasCol(df, count_match)
       ELSE HasCol(df, ret.z_metric)

SizedReturned == ScatterReturned /\ ret.z_metric # None

FLeq(a, b) == FEq(a, b) \/ FLess(a, b)

ExampleZ == <<Num(0), Num(5), Num(10)>>

ExampleSizes == <<Num(50), Num(175), Num(300)>>

\* C3: when the z column has old_min < old_max every size lies in [50, 300],
\* the rows holding the minimum get exactly 50 and the rows holding the
\* maximum exactly 300; the column [0, 5, 10] yields [50, 175, 300].
C3_SizeRange ==
    (SizedReturned /\ FLess(SeriesMin(ZColumn), SeriesMax(ZColumn))) =>
        /\ Len(ret.out.size) = NRows(df)
        /\ \A i \in Rows(df) :
              /\ FLeq(Num(50), ret.out.size[i]) /\ FLeq(ret.out.size[i], Num(300))
              /\ FEq(ZColumn[i], SeriesMin(ZColumn)) => ret.out.size[i] = Num(50)
              /\ FEq(ZColumn[i], SeriesMax(ZColumn)) => ret.out.size[i] = Num(300)
        /\ ZColumn = ExampleZ => ret.out.size = ExampleSizes

\* C3, amended: when the values of the z column that are not missing are
\* finite with old_min < old_max, every row whose z value is not missing
\* gets a size in [50, 300], exactly 50 if it holds the minimum and exactly
\* 300 if it holds the maximum, and a row whose z value is missing (NaN)
\* gets the size NaN; the column [0, 5, 10] yields [50, 175, 300].
C3_SizeRangeNotMissing ==
    (SizedReturned /\ FLess(SeriesMin(ZColumn), SeriesMax(ZColumn))) =>
        /\ Len(ret.out.size) = NRows(df)
        /\ \A i \in Rows(df) :
              IF IsNaN(ZColumn[i]) THEN IsNaN(ret.out.size[i])
              ELSE /\ FLeq(Num(50), ret.out.size[i]) /\ FLeq(ret.out.size[i], Num(300))
                   /\ FEq(ZColumn[i], SeriesMin(ZColumn)) => ret.out.size[i] = Num(50)
                   /\ FEq(ZColumn[i], SeriesMax(ZColumn)) => ret.out.size[i] = Num(300)
        /\ ZColumn = ExampleZ => ret.out.size = ExampleSizes

\* A call on a column with a missing value next to its minimum and its
\* maximum.
C3_Witness ==
    /\ SizedReturned
    /\ FLess(SeriesMin(ZColumn), SeriesMax(ZColumn))
    /\ \E i, j, k \in Rows(df) :
          /\ IsNaN(ZColumn[i]) /\ IsNaN(ret.out.size[i])
          /\ ret.out.size[j] = Num(50)
          /\ ret.out.size[k] = Num(300)

\* C7: with both highlight groups empty nothing is raised and every row is
\* background: plot_swarm_violin gives every row the background class and
\* the base colour and draws no highlight swarm and no label, and
\* plot_scatter without thresholds has an empty label group and no text.
C7_EmptyGroups ==
    /\ (ret.fn = "plot_swarm_violin" /\ ret.primary = {} /\ ret.secondary = {}) =>
          /\ ret.out.status = "ok"
          /\ \A k \in 1..Len(ret.out.plot_data) :
                /\ ret.out.plot_data[k].swarm_group = "background_group"
                /\ ret.out.plot_data[k].colour = base_color
          /\ ~ret.out.highlight_swarm
          /\ ret.out.labels = <<>>
    /\ (ret.fn = "plot_scatter" /\ ret.primary = {} /\ ret.secondary = {}
          /\ ret.x_sd_highlight = None) =>
          /\ ret.out.status = "ok"
          /\ ret.out.label_group = <<>>
          /\ ret.out.texts = <<>>

C7_Witness ==
    /\ SwarmReturned
    /\ ret.primary = {} /\ ret.secondary = {}
    /\ Len(ret.out.plot_data) = NRows(df)
    /\ NRows(df) > 1
    /\ ~ret.out.highlight_swarm

\* C8: when the z column is single-valued the rescale raises nothing and
\* substitutes no default: the size of every row is a non-finite value.
C8_DegenerateRange ==
    (ret.fn = "plot_scatter" /\ ZAvailable /\ SeriesMin(ZColumn) = SeriesMax(ZColumn)) =>
        /\ ret.out.status = "ok"
        /\ \A i \in Rows(df) : ~IsFinite(ret.out.size[i])

C8_Witness ==
    /\ SizedReturned
    /\ NRows(df) > 1
    /\ SeriesMin(ZColumn) = SeriesMax(ZColumn)
    /\ \A i \in Rows(df) : IsNaN(ret.out.size[i])

\* C12: the chart functions keep no state across calls: after any sequence
\* of calls to plot_bar_chart, plot_scatter and plot_swarm_violin the
\* process-wide default colour palette is the one set at module load.
C12_StatelessStyling == palette = DefaultPalette

\* C13: plot_scatter called without z_metric gives every row the marker
\* size 100, whatever the columns hold, the markers of the label group
\* included, and adds no size legend entry.
C13_ConstantSize ==
    (ScatterReturned /\ ret.z_metric = None) =>
        /\ Len(ret.out.size) = NRows(df)
        /\ \A i \in Rows(df) : ret.out.size[i] = Num(100)
        /\ \A k \in 1..Len(ret.out.label_group) : ret.out.label_group[k].size = Num(100)
        /\ ret.out.size_legend = <<>>

C13_Witness ==
    /\ ScatterReturned /\ ret.z_metric = None
    /\ NRows(df) > 1
    /\ HasCol(df, minutes_played_per_match)
    /\ df.data[minutes_played_per_match][1] # df.data[minutes_played_per_match][2]
    /\ ret.out.label_group # <<>>
    /\ \A i \in Rows(df) : ret.out.size[i] = Num(100)

\* The last call was a plot_swarm_violin with a highlight group, which runs
\* the label loop over the y groups.
LabelLoopEntered ==
    ret.fn = "plot_swarm_violin" /\ (ret.primary # {} \/ ret.secondary # {})

\* The number of highlighted rows the g-th y group of the last call has.
HighlightedInGroup(g) ==
    NHighlighted(df, col_group, ret.out.y_groups[g], ret.primary \cup ret.secondary)

\* The g-th y group has a highlight collection, of another number of points
\* than the group has highlighted rows.
LengthMismatch(g) ==
    g <= Len(ret.collections) /\ Len(ret.collections[g]) # HighlightedInGroup(g)

\* C10: in plot_swarm_violin, the axes holding a highlight collection for
\* every y group, the labels of a group are placed only if the group has as
\* many highlighted rows as its highlight collection has points; in a call
\* with a group whose numbers differ that group gets no label, nothing is
\* raised and every group is processed.
C10_LabelLengthCheck ==
    (LabelLoopEntered /\ Len(ret.collections) >= Len(ret.out.y_groups)) =>
        /\ \A g \in 1..Len(ret.out.labels) :
              ret.out.labels[g].texts # <<>> => ~LengthMismatch(g)
        /\ \A g \in 1..Len(ret.out.y_groups) :
              LengthMismatch(g) =>
                 /\ ret.out.status = "ok"
                 /\ Len(ret.out.labels) = Len(ret.out.y_groups)
                 /\ ret.out.labels[g].texts = <<>>

\* What the label loop does of this: it ends in a ValueError before its
\* first length check on a dataset with a column index or level_0, and in an
\* IndexError at the first group the axes hold no highlight collection for;
\* neither depends on the lengths.  Every group it reaches gets its labels,
\* at the y of the points of its collection, exactly when the lengths agree,
\* whatever the lengths of the groups before it.
LabelLoopOutcome ==
    LabelLoopEntered =>
        /\ ret.out.status
              = (IF Len(ret.out.y_groups) > 0 /\ ResetIndexFails(df) THEN "ValueError"
                 ELSE IF Len(ret.collections) < Len(ret.out.y_groups) THEN "IndexError"
                 ELSE "ok")
        /\ Len(ret.out.labels)
              = (IF ResetIndexFails(df) THEN 0
                 ELSE Min(Len(ret.out.y_groups), Len(ret.collections)))
        /\ \A g \in 1..Len(ret.out.labels) :
              LET l == ret.out.labels[g]
              IN  /\ l.n_labelled = HighlightedInGroup(g)
                  /\ l.n_offsets = Len(ret.collections[g])
                  /\ l.n_labelled # l.n_offsets => l.texts = <<>>
                  /\ l.n_labelled = l.n_offsets =>
                        /\ Len(l.texts) = l.n_labelled
                        /\ \A k \in 1..Len(l.texts) :
                              l.texts[k].y = OffsetY(ret.collections[g][k])

\* A call that skipped the labels of its first group and placed those of
\* its second, and a call the label loop ended with a ValueError.
LabelLoopSkipped ==
    /\ SwarmReturned
    /\ Len(ret.out.labels) = 2
    /\ LengthMismatch(1)
    /\ ret.out.labels[1].texts = <<>>
    /\ Len(ret.out.labels[2].texts) > 0

LabelLoopRaised ==
    /\ LabelLoopEntered
    /\ ret.out.status = "ValueError"
    /\ \E g \in 1..Len(ret.out.y_groups) : LengthMismatch(g)

\* plot_swarm_violin plots, sorts and labels by the columns of plot_data:
\* a column named swarm_group or colour holds there the class or the colour
\* the call gave the row, not what the caller's dataset holds.
SwarmReadsPlotData ==
    (ret.fn = "plot_swarm_violin" /\ "plot_data" \in DOMAIN ret.out
        /\ ret.x_metric \in {swarm_group, colour}) =>
        /\ \A k \in 1..Len(ret.out.plot_data) :
              ret.out.plot_data[k].x
                  = (IF ret.x_metric = colour THEN ret.out.plot_data[k].colour
                     ELSE ret.out.plot_data[k].swarm_group)
        /\ \A g \in 1..Len(ret.out.labels) :
              \A k \in 1..Len(ret.out.labels[g].texts) :
                  ret.out.labels[g].texts[k].x \in Range(StringOrder)

\* ------------------------------------------------ step-by-step properties
\* A chart call is in progress or has just ended.
InCall == ret # NoCall

ScatterCall == ret.fn = "plot_scatter"

Ended == ret.pc \in {"returned", "raised"}

\* The place of the step s in the sequence order.
Place(order, s) == CHOOSE i \in 1..Len(order) : order[i] = s

\* The steps of order that were taken were taken in the order of order.
InOrder(steps, order) ==
    \A i, j \in 1..Len(steps) :
        (i < j /\ steps[i] \in Range(order) /\ steps[j] \in Range(order))
            => Place(order, steps[i]) < Place(order, steps[j])

ClaimedOrder == <<"classify", "size", "render", "label">>

ScatterOrder == <<"size", "classify", "render", "label">>

BarOrder == <<"render", "classify", "label">>

SwarmOrder == <<"classify", "render", "label">>

\* C14: in every run of a chart function the rows are classified, then the
\* size column is computed, then the points are rendered, then the labels
\* are placed; in plot_scatter the classification comes before the sizes.
C14_StepOrder == InCall => InOrder(ret.steps, ClaimedOrder)

\* C14, as amended: plot_scatter computes the size column, then classifies
\* the rows, then renders the points, then places the labels;
\* plot_swarm_violin classifies, renders the swarm, places the labels;
\* plot_bar_chart renders the bars, then classifies them, then labels them.
\* A call that returns has taken each of these steps once.
C14_StepOrderAmended ==
    InCall =>
        \E order \in {IF ret.fn = "plot_scatter" THEN ScatterOrder
                      ELSE IF ret.fn = "plot_bar_chart" THEN BarOrder ELSE SwarmOrder} :
            /\ InOrder(ret.steps, order)
            /\ ret.pc = "returned" =>
                  \A s \in Range(order) :
                      Cardinality({i \in 1..Len(ret.steps) : ret.steps[i] = s}) = 1

C14_Witness ==
    /\ InCall /\ ScatterCall /\ ret.pc = "returned"
    /\ ret.steps = <<"size", "classify", "render", "label", "legend">>
    /\ ret.z_metric # None
    /\ ret.texts # <<>>
    /\ ret.points # <<>>

\* The integer an integral number stands for, and the sum of a sequence of
\* integers.
IntOf(a) == a.s * LimbAt(ShiftRight(a.m, -a.e), 1)

RECURSIVE SumInt(_)
SumInt(s) == IF s = <<>> THEN 0 ELSE s[1] + SumInt(Tail(s))

\* v[i] > mean(v) + k * sd(v) for a column v of integers, sd being the sample
\* standard deviation (undefined for a single row, when nothing exceeds):
\* with D = n v[i] - sum(v) and V = n sum(v^2) - sum(v)^2, the deviation is
\* D / n and the variance V / (n (n - 1)).  A column of equal values has
\* V = 0 and D = 0, and nothing exceeds whatever k is.
IntExceeds(v, i, k) ==
    LET n == Len(v)
        D == n * v[i] - SumInt(v)
        V == n * SumInt([j \in 1..n |-> v[j] * v[j]]) - SumInt(v) * SumInt(v)
    IN  /\ n > 1
        /\ IF k >= 0 THEN D > 0 /\ D * D * (n - 1) > k * k * V * n
           ELSE D > 0 \/ D * D * (n - 1) < k * k * V * n

IntColumn(d, c) == [i \in 1..NRows(d) |-> IntOf(d.data[c][i])]

\* The rows of the caller's frame in one of the two highlight groups.
HighlightedRows ==
    {i \in Rows(ret.pre) : ret.pre.data[player_name][i] \in ret.primary \cup ret.secondary}

\* The rows over the x threshold or over the y threshold.
RowsOverThreshold ==
    {i \in Rows(ret.pre) :
        \/ IntExceeds(IntColumn(ret.pre, col_x), i, ret.x_sd_highlight[1])
        \/ IntExceeds(IntColumn(ret.pre, col_y), i, ret.y_sd_highlight[1])}

\* The rows the claim gives a label.
RowsToLabel ==
    HighlightedRows
        \cup (IF ret.x_sd_highlight # None /\ ret.y_sd_highlight # None
              THEN RowsOverThreshold ELSE {})

\* C15: in plot_scatter the rows that get a text label are exactly the rows
\* of the primary or secondary group and, when the thresholds are given, the
\* rows whose x exceeds mean(x) + x_sd_highlight * sd(x) or whose y exceeds
\* mean(y) + y_sd_highlight * sd(y); each of them gets one label, at its own
\* (x, y), carrying its data_point_label, and no other row gets one.
C15_LabelledRows ==
    (InCall /\ ScatterCall /\ ret.pc = "returned") =>
        /\ Range(ret.label_group.index) = RowsToLabel
        /\ Len(ret.label_group.index) = Cardinality(RowsToLabel)
        /\ Len(ret.texts) = Len(ret.label_group.index)
        /\ \A k \in 1..Len(ret.texts) :
              ret.texts[k] = [x |-> ret.pre.data[col_x][ret.label_group.index[k]],
                              y |-> ret.pre.data[col_y][ret.label_group.index[k]],
                              text |-> ret.pre.data[player_name][ret.label_group.index[k]]]

C15_Witness ==
    /\ InCall /\ ScatterCall /\ ret.pc = "returned"
    /\ ret.x_sd_highlight # None /\ ret.y_sd_highlight # None
    /\ ret.primary # {}
    /\ \E j, m \in Rows(ret.pre) :
          /\ j \in RowsOverThreshold /\ j \notin HighlightedRows
          /\ m \notin RowsToLabel
          /\ j \in Range(ret.label_group.index)
          /\ m \notin Range(ret.label_group.index)
    /\ Len(ret.texts) = 1

\* C16: when plot_bar_chart, plot_scatter or plot_swarm_violin has returned,
\* the caller's dataset has the columns, the rows in the order and the values
\* it had before the call: the working columns, the sort and the filter are
\* on other objects.
C16_CallerFrameUnchanged ==
    (InCall /\ ret.pc = "returned") => df = ret.pre

C16_Witness ==
    /\ InCall /\ ScatterCall /\ ret.pc = "returned"
    /\ ret.z_metric # None
    /\ HasCol(ret.local.frame, size)
    /\ Len(ret.label_group.index) > 0
    /\ HasCol(ret.label_group.frame, colour)
    /\ ~HasCol(df, size)
    /\ df = ret.pre

\* C17: in plot_scatter the y threshold is evaluated if and only if
\* x_sd_highlight is given: without it the label group is exactly the
\* highlighted rows whatever y_sd_highlight is, and with it and without
\* y_sd_highlight the call ends in a fault before any point is drawn.
C17_YThresholdOnlyWithX ==
    (InCall /\ ScatterCall) =>
        /\ (ret.x_sd_highlight = None /\ ret.pc \in {"render", "label", "legend", "returned"}) =>
              /\ Range(ret.label_group.index) = HighlightedRows
              /\ Len(ret.label_group.index) = Cardinality(HighlightedRows)
        /\ (ret.x_sd_highlight # None /\ ret.y_sd_highlight = None) =>
              /\ ret.pc \in {"size", "classify", "raised"}
              /\ ret.points = <<>> /\ ret.overlay = <<>>
              /\ (ret.pc = "raised" /\ "size" \in Range(ret.steps)) => ret.status = "TypeError"

C17_Witness ==
    /\ InCall /\ ScatterCall /\ ret.pc = "returned"
    /\ ret.x_sd_highlight = None /\ ret.y_sd_highlight # None
    /\ \E i \in Rows(ret.pre) :
          /\ IntExceeds(IntColumn(ret.pre, col_y), i, ret.y_sd_highlight[1])
          /\ i \notin Range(ret.label_group.index)
    /\ Len(ret.label_group.index) > 0

====
